---- MODULE Spec2Model ----
(***************************************************************************)
(* Multi-version key/value storage (Erigara/mv).                           *)
(*                                                                         *)
(* Three stores are modelled, each from its own source file:               *)
(*   "storage" : src/src/storage.rs  (base map + published rollback log)   *)
(*   "lib"     : src/src/lib.rs      (base map + published staging buffer) *)
(*   "cell"    : src/src/cell.rs     (scalar value + optional prior value) *)
(* A behaviour works on one of them, chosen in Init (variable `variant`).  *)
(***************************************************************************)
EXTENDS Integers, Sequences, FiniteSets, TLC

\* ------------------------------------------------------------------ bounds
NumKeys == 2
NumVals == 2

Keys == 1..NumKeys
Vals == 1..NumVals

\* ------------------------------------------------------------------ data
\* Option::None, and "key not in the map" (BTreeMap / BptreeMap lookups
\* return Option<&V>).
None == 0
\* "no entry for this key" in a BTreeMap<K, Option<V>> (the rollback log),
\* as opposed to an entry whose value is None.
NoEntry == 0 - 1

OptVals == Vals \cup {None}
\* BptreeMap<K, V> / BTreeMap<K, V>: a total function, None where the key is absent.
Maps == [Keys -> OptVals]
\* BTreeMap<K, Option<V>>
Logs == [Keys -> OptVals \cup {NoEntry}]

EmptyMap == [k \in Keys |-> None]
EmptyLog == [k \in Keys |-> NoEntry]

\* BTreeMap::insert / BptreeMapWriteTxn::insert
MapInsert(m, k, v) == [m EXCEPT ![k] = v]
\* BTreeMap::remove / BptreeMapWriteTxn::remove
MapRemove(m, k) == [m EXCEPT ![k] = None]
\* faulty variant: BTreeMap::insert(k, prev), which replaces an existing entry
OrInsert_overwrites(log, k, prev) == [log EXCEPT ![k] = prev]
\* BTreeMap::entry(k).or_insert(prev): keeps an existing entry
OrInsert(log, k, prev) == IF log[k] = NoEntry THEN [log EXCEPT ![k] = prev] ELSE log
\* the keys of a map, ascending (BTreeMap iteration order)
RECURSIVE KeysFrom(_, _)
KeysFrom(m, k) ==
    IF k > NumKeys THEN <<>>
    ELSE IF m[k] # None THEN <<k>> \o KeysFrom(m, k + 1) ELSE KeysFrom(m, k + 1)
\* the entries of a map as a sequence of <<key, value>>, ascending by key
RECURSIVE EntriesFrom(_, _)
EntriesFrom(m, k) ==
    IF k > NumKeys THEN <<>>
    ELSE IF m[k] # None THEN <<<<k, m[k]>>>> \o EntriesFrom(m, k + 1)
         ELSE EntriesFrom(m, k + 1)
MapIter(m) == EntriesFrom(m, 1)

\* ====================================================================
\* src/src/storage.rs : the revert-log Storage
\* A Block is [revert : Logs, blocks : Maps], a Transaction is [revert : Logs].
\* ====================================================================

\* `for (key, value) in revert { None => remove, Some(v) => insert }`
RECURSIVE ApplyLogFrom(_, _, _)
ApplyLogFrom(m, log, k) ==
    IF k > NumKeys THEN m
    ELSE ApplyLogFrom(IF log[k] = NoEntry THEN m ELSE [m EXCEPT ![k] = log[k]], log, k + 1)
ApplyLog(m, log) == ApplyLogFrom(m, log, 1)

\* faulty variant: the rollback log is not cleared
S_block_keeps_log(pub_revert, pub_blocks) == [revert |-> pub_revert, blocks |-> pub_blocks]

\* Storage::block : the rollback log is cleared inside the write handle
S_block(pub_revert, pub_blocks) == [revert |-> EmptyLog, blocks |-> pub_blocks]

\* faulty variant: the log is taken but never applied to the map
S_block_and_revert_not_applied(pub_revert, pub_blocks) ==
    [revert |-> EmptyLog, blocks |-> pub_blocks]

\* faulty variant: the log is applied and replaced by its inverse, which
\* would undo the revert itself
S_block_and_revert_redo(pub_revert, pub_blocks) ==
    [revert |-> [k \in Keys |-> IF pub_revert[k] = NoEntry THEN NoEntry ELSE pub_blocks[k]],
     blocks |-> ApplyLog(pub_blocks, pub_revert)]

\* Storage::block_and_revert : the log is applied to the map and taken
S_block_and_revert(pub_revert, pub_blocks) ==
    [revert |-> EmptyLog, blocks |-> ApplyLog(pub_blocks, pub_revert)]

\* Block::get, View::get
S_get(m, k) == m[k]

\* Block::insert
S_Block_insert(b, k, v) ==
    [revert |-> OrInsert(b.revert, k, b.blocks[k]), blocks |-> MapInsert(b.blocks, k, v)]

\* Block::remove
S_Block_remove(b, k) ==
    [revert |-> OrInsert(b.revert, k, b.blocks[k]), blocks |-> MapRemove(b.blocks, k)]

\* Block::get_mut followed by a store of v through the returned reference
\* (v equal to the present value: the reference is held but not written)
S_Block_get_mut(b, k, v) ==
    IF b.blocks[k] = None THEN b
    ELSE [revert |-> OrInsert(b.revert, k, b.blocks[k]), blocks |-> MapInsert(b.blocks, k, v)]

\* Block::transaction
S_Block_transaction == [revert |-> EmptyLog]

\* faulty variant: the prior value is recorded with insert, not entry().or_insert
S_Transaction_insert_overwrites(b, t, k, v) ==
    << [b EXCEPT !.blocks = MapInsert(b.blocks, k, v)],
       [revert |-> [t.revert EXCEPT ![k] = b.blocks[k]]] >>

\* Transaction::insert : returns <<block, transaction>>
S_Transaction_insert(b, t, k, v) ==
    << [b EXCEPT !.blocks = MapInsert(b.blocks, k, v)],
       [revert |-> OrInsert(t.revert, k, b.blocks[k])] >>

\* Transaction::remove
S_Transaction_remove(b, t, k) ==
    << [b EXCEPT !.blocks = MapRemove(b.blocks, k)],
       [revert |-> OrInsert(t.revert, k, b.blocks[k])] >>

\* faulty variant: the prior value is recorded only when the store changes it
S_Transaction_get_mut_if_modified(b, t, k, v) ==
    IF b.blocks[k] = None \/ b.blocks[k] = v THEN <<b, t>>
    ELSE << [b EXCEPT !.blocks = MapInsert(b.blocks, k, v)],
            [revert |-> OrInsert(t.revert, k, b.blocks[k])] >>

\* Transaction::get_mut followed by a store of v
S_Transaction_get_mut(b, t, k, v) ==
    IF b.blocks[k] = None THEN <<b, t>>
    ELSE << [b EXCEPT !.blocks = MapInsert(b.blocks, k, v)],
            [revert |-> OrInsert(t.revert, k, b.blocks[k])] >>

\* Transaction::apply, up to the point where `self` goes out of scope:
\* block.revert.entry(key).or_insert(value) for each entry; self.revert is taken
RECURSIVE MergeLogFrom(_, _, _)
MergeLogFrom(into, log, k) ==
    IF k > NumKeys THEN into
    ELSE MergeLogFrom(IF log[k] = NoEntry THEN into ELSE OrInsert(into, k, log[k]), log, k + 1)
\* faulty variant: self.revert is iterated by reference and stays in place
S_Transaction_apply_keeps_diff(b, t) ==
    << [b EXCEPT !.revert = MergeLogFrom(b.revert, t.revert, 1)], t >>

S_Transaction_apply(b, t) ==
    << [b EXCEPT !.revert = MergeLogFrom(b.revert, t.revert, 1)], [revert |-> EmptyLog] >>

\* faulty variant: the destructor merges the private diff into the Block's log
S_Transaction_drop_logs(b, t) ==
    << [revert |-> MergeLogFrom(b.revert, t.revert, 1),
        blocks |-> ApplyLog(b.blocks, t.revert)], [revert |-> EmptyLog] >>

\* impl Drop for Transaction
S_Transaction_drop(b, t) ==
    << [b EXCEPT !.blocks = ApplyLog(b.blocks, t.revert)], [revert |-> EmptyLog] >>


\* ====================================================================
\* src/src/lib.rs : the staging-buffer Storage
\* BlockInner is [removed_keys : SUBSET Keys, new_or_updated_keys : Maps];
\* a Block is [latest_block : BlockInner, blocks : Maps], a Transaction is
\* [latest_block : BlockInner].
\* ====================================================================

\* BlockInner::new
BlockInner_new == [removed_keys |-> {}, new_or_updated_keys |-> EmptyMap]

\* `for key in &latest_block.removed_keys { blocks.remove(key) }`
RemoveAll(m, ks) == [k \in Keys |-> IF k \in ks THEN None ELSE m[k]]
\* BTreeMap::extend / BptreeMapWriteTxn::extend : later entries overwrite
Extend(m, more) == [k \in Keys |-> IF more[k] # None THEN more[k] ELSE m[k]]
\* BTreeMap::retain(|k, _| !removed.contains(k))
RetainNotIn(m, ks) == [k \in Keys |-> IF k \in ks THEN None ELSE m[k]]

\* faulty variant: the merge forgets the tombstones of the previous block
L_block_keeps_removed(rollback_latest_block, pub_latest_block, pub_blocks) ==
    [latest_block |-> BlockInner_new,
     blocks |-> IF rollback_latest_block THEN pub_blocks
                ELSE Extend(pub_blocks, pub_latest_block.new_or_updated_keys)]

\* faulty variant: the overrides are merged before the tombstones are removed
L_block_removes_last(rollback_latest_block, pub_latest_block, pub_blocks) ==
    [latest_block |-> BlockInner_new,
     blocks |-> IF rollback_latest_block THEN pub_blocks
                ELSE RemoveAll(Extend(pub_blocks, pub_latest_block.new_or_updated_keys),
                               pub_latest_block.removed_keys)]

\* Storage::block(rollback_latest_block)
L_block(rollback_latest_block, pub_latest_block, pub_blocks) ==
    [latest_block |-> BlockInner_new,
     blocks |-> IF rollback_latest_block THEN pub_blocks
                ELSE Extend(RemoveAll(pub_blocks, pub_latest_block.removed_keys),
                            pub_latest_block.new_or_updated_keys)]

\* faulty variant: the tombstones are not consulted
L_get_ignores_tombstones(h, k) ==
    IF h.latest_block.new_or_updated_keys[k] # None
    THEN h.latest_block.new_or_updated_keys[k]
    ELSE h.blocks[k]

\* View::get and Block::get : overrides, then tombstones, then the base map
L_get(h, k) ==
    IF h.latest_block.new_or_updated_keys[k] # None
    THEN h.latest_block.new_or_updated_keys[k]
    ELSE IF k \in h.latest_block.removed_keys THEN None ELSE h.blocks[k]

\* Block::insert on a BlockInner (the same two statements as Transaction::insert)
L_Inner_insert(inner, k, v) ==
    [removed_keys |-> inner.removed_keys \ {k},
     new_or_updated_keys |-> MapInsert(inner.new_or_updated_keys, k, v)]

\* faulty variant: remove leaves the override in place
L_Inner_remove_keeps_override(inner, k) ==
    [removed_keys |-> inner.removed_keys \cup {k},
     new_or_updated_keys |-> inner.new_or_updated_keys]

\* Block::remove on a BlockInner (the same two statements as Transaction::remove)
L_Inner_remove(inner, k) ==
    [removed_keys |-> inner.removed_keys \cup {k},
     new_or_updated_keys |-> MapRemove(inner.new_or_updated_keys, k)]

\* Block::insert
L_Block_insert(b, k, v) == [b EXCEPT !.latest_block = L_Inner_insert(b.latest_block, k, v)]
\* Block::remove
L_Block_remove(b, k) == [b EXCEPT !.latest_block = L_Inner_remove(b.latest_block, k)]

\* Block::transaction
L_Block_transaction == [latest_block |-> BlockInner_new]

\* Transaction::insert
L_Transaction_insert(t, k, v) == [latest_block |-> L_Inner_insert(t.latest_block, k, v)]
\* Transaction::remove
L_Transaction_remove(t, k) == [latest_block |-> L_Inner_remove(t.latest_block, k)]

\* Transaction::get : the private buffer, then the Block
L_Transaction_get(b, t, k) ==
    IF t.latest_block.new_or_updated_keys[k] # None
    THEN t.latest_block.new_or_updated_keys[k]
    ELSE IF k \in t.latest_block.removed_keys THEN None ELSE L_get(b, k)

\* faulty variant: the Block's overrides are not filtered by the removed keys
L_Transaction_apply_no_retain(b, t) ==
    [b EXCEPT !.latest_block =
        [removed_keys |-> b.latest_block.removed_keys \cup t.latest_block.removed_keys,
         new_or_updated_keys |->
            Extend(b.latest_block.new_or_updated_keys, t.latest_block.new_or_updated_keys)]]

\* Transaction::apply : the Block after the merge
L_Transaction_apply(b, t) ==
    [b EXCEPT !.latest_block =
        [removed_keys |-> b.latest_block.removed_keys \cup t.latest_block.removed_keys,
         new_or_updated_keys |->
            Extend(RetainNotIn(b.latest_block.new_or_updated_keys,
                               t.latest_block.removed_keys),
                   t.latest_block.new_or_updated_keys)]]

\* ====================================================================
\* src/src/cell.rs : the scalar Cell
\* A Block is [revert : OptVals, blocks : Vals], a Transaction is
\* [revert : OptVals].
\* ====================================================================

\* Option::get_or_insert
GetOrInsert(opt, v) == IF opt = None THEN v ELSE opt

\* Cell::block
C_block(pub_revert, pub_blocks) == [revert |-> None, blocks |-> pub_blocks]

\* faulty variant: an empty rollback slot resets the value (unwrap_or_default)
C_block_and_revert_default(pub_revert, pub_blocks) ==
    [revert |-> None, blocks |-> IF pub_revert # None THEN pub_revert ELSE 1]

\* Cell::block_and_revert
C_block_and_revert(pub_revert, pub_blocks) ==
    [revert |-> None, blocks |-> IF pub_revert # None THEN pub_revert ELSE pub_blocks]

\* faulty variant: the prior value is stored with insert, not get_or_insert
C_Block_get_mut_overwrites(b, v) == [revert |-> b.blocks, blocks |-> v]

\* Block::get_mut followed by a store of v through the returned reference
C_Block_get_mut(b, v) == [revert |-> GetOrInsert(b.revert, b.blocks), blocks |-> v]

\* Block::transaction
C_Block_transaction == [revert |-> None]

\* faulty variant: the prior value is stored with insert, not get_or_insert
C_Transaction_get_mut_overwrites(b, t, v) ==
    << [b EXCEPT !.blocks = v], [revert |-> b.blocks] >>

\* Transaction::get_mut followed by a store of v : <<block, transaction>>
C_Transaction_get_mut(b, t, v) ==
    << [b EXCEPT !.blocks = v], [revert |-> GetOrInsert(t.revert, b.blocks)] >>

\* faulty variant: apply() stores the Transaction's prior value with insert
C_Transaction_apply_overwrites(b, t) ==
    << IF t.revert # None THEN [b EXCEPT !.revert = t.revert] ELSE b, [revert |-> None] >>

\* Transaction::apply, up to the point where `self` goes out of scope
C_Transaction_apply(b, t) ==
    << IF t.revert # None THEN [b EXCEPT !.revert = GetOrInsert(b.revert, t.revert)] ELSE b,
       [revert |-> None] >>

\* impl Drop for Transaction
C_Transaction_drop(b, t) ==
    << IF t.revert # None THEN [b EXCEPT !.blocks = t.revert] ELSE b, [revert |-> None] >>


\* ====================================================================
\* src/src/storage.rs : iter() and len() of View, Block and Transaction
\* ====================================================================
\* Iter { iter: self.blocks.iter() } : the entries of the map, ascending
S_iter(m) == MapIter(m)
\* self.blocks.len() : the number of entries of the map
S_len(m) == Cardinality({k \in Keys : m[k] # None})

\* ====================================================================
\* src/src/lib.rs : iter() and range() of View, Block and Transaction
\* An iterator is the finite sequence of <<key, value>> it yields.
\* ====================================================================
\* BTreeSet::iter : the keys of a set, ascending
RECURSIVE SetIterFrom(_, _)
SetIterFrom(s, k) ==
    IF k > NumKeys THEN <<>>
    ELSE IF k \in s THEN <<k>> \o SetIterFrom(s, k + 1) ELSE SetIterFrom(s, k + 1)
SetIter(s) == SetIterFrom(s, 1)

\* blocks_iter.filter(move |(k, _)| loop { match next_removed_key.cmp(k) .. }):
\* rem is what removed_keys_iter, with next_removed_key in front, still holds
RECURSIVE FilterRemoved(_, _)
FilterRemoved(base, rem) ==
    IF base = <<>> THEN <<>>
    ELSE IF rem = <<>> \/ rem[1] > base[1][1]
         THEN <<base[1]>> \o FilterRemoved(Tail(base), rem)
    ELSE IF rem[1] < base[1][1]
         THEN FilterRemoved(base, Tail(rem))
    ELSE FilterRemoved(Tail(base), Tail(rem))

\* itertools merge_by(right, |l, r| l.0 <= r.0): the left head goes first
\* when the predicate holds
RECURSIVE MergeBy(_, _)
MergeBy(l, r) ==
    IF l = <<>> THEN r
    ELSE IF r = <<>> THEN l
    ELSE IF l[1][1] <= r[1][1] THEN <<l[1]>> \o MergeBy(Tail(l), r)
    ELSE <<r[1]>> \o MergeBy(l, Tail(r))

\* itertools dedup_by(|l, r| l.0 == r.0): of a run of equal keys the first
\* element stays
RECURSIVE DedupBy(_)
DedupBy(s) ==
    IF Len(s) <= 1 THEN s
    ELSE IF s[1][1] = s[2][1] THEN DedupBy(<<s[1]>> \o Tail(Tail(s)))
    ELSE <<s[1]>> \o DedupBy(Tail(s))

\* faulty variant: the base entries win the merge (|l, r| l.0 < r.0)
L_merge_base_first(inner, base) ==
    DedupBy(MergeBy(FilterRemoved(base, SetIter(inner.removed_keys)),
                    MapIter(inner.new_or_updated_keys)))

\* the body shared by the three iter(): the overrides merged with the
\* filtered iterator below them
L_merge(inner, base) ==
    DedupBy(MergeBy(MapIter(inner.new_or_updated_keys),
                    FilterRemoved(base, SetIter(inner.removed_keys))))

\* View::iter and Block::iter, on [latest_block, blocks]
L_iter(h) == L_merge(h.latest_block, MapIter(h.blocks))
\* faulty variant: the Transaction iterates the base map, not the Block
L_Transaction_iter_skips_block(b, t) == L_merge(t.latest_block, MapIter(b.blocks))
\* Transaction::iter : the Transaction's buffer over self.block.iter()
L_Transaction_iter(b, t) == L_merge(t.latest_block, L_iter(b))

\* core::ops::Bound: <<"Unbounded", 0>>, <<"Included", k>>, <<"Excluded", k>>;
\* a RangeBounds is <<start_bound, end_bound>>
AllBounds == {<<"Unbounded", 0>>} \cup ({"Included", "Excluded"} \X Keys)
InBounds(k, bounds) ==
    /\ CASE bounds[1][1] = "Unbounded" -> TRUE
         [] bounds[1][1] = "Included"  -> bounds[1][2] <= k
         [] bounds[1][1] = "Excluded"  -> bounds[1][2] < k
    /\ CASE bounds[2][1] = "Unbounded" -> TRUE
         [] bounds[2][1] = "Included"  -> k <= bounds[2][2]
         [] bounds[2][1] = "Excluded"  -> k < bounds[2][2]
\* the pairs BTreeMap::range rejects: start > end, or start = end with both
\* excluded
BadBounds(bounds) ==
    /\ bounds[1][1] # "Unbounded"
    /\ bounds[2][1] # "Unbounded"
    /\ \/ bounds[1][2] > bounds[2][2]
       \/ /\ bounds[1][2] = bounds[2][2]
          /\ bounds[1][1] = "Excluded" /\ bounds[2][1] = "Excluded"

\* faulty variant: an excluded bound is taken as included
MapRange_inclusive(m, bounds) ==
    LET In(e) == /\ (bounds[1][1] # "Unbounded" => bounds[1][2] <= e[1])
                 /\ (bounds[2][1] # "Unbounded" => e[1] <= bounds[2][2])
    IN SelectSeq(MapIter(m), In)

\* BTreeMap::range / BptreeMap::range on a pair they accept
MapRange(m, bounds) ==
    LET In(e) == InBounds(e[1], bounds) IN SelectSeq(MapIter(m), In)
\* BTreeMap::range panics on a rejected pair unless the map is empty (it has
\* no root to search)
BTreeRangePanics(m, bounds) == m # EmptyMap /\ BadBounds(bounds)

\* the result of a range() call: it panicked, or the entries it yields
Panicked == [panic |-> TRUE, items |-> <<>>]
Yields(items) == [panic |-> FALSE, items |-> items]

\* View::range and Block::range, on [latest_block, blocks]. base_panics:
\* whether a map without entries in the chain (an emptied BTreeMap, the
\* BptreeMap) panics on a rejected pair as well; either can happen.
L_range(h, bounds, base_panics) ==
    IF BTreeRangePanics(h.latest_block.new_or_updated_keys, bounds) THEN Panicked
    ELSE IF BadBounds(bounds) /\ base_panics THEN Panicked
    ELSE Yields(DedupBy(MergeBy(MapRange(h.latest_block.new_or_updated_keys, bounds),
                                FilterRemoved(MapRange(h.blocks, bounds),
                                              SetIter(h.latest_block.removed_keys)))))

\* Transaction::range : the Transaction's buffer over self.block.range(bounds)
L_Transaction_range(b, t, bounds, base_panics) ==
    IF BTreeRangePanics(t.latest_block.new_or_updated_keys, bounds) THEN Panicked
    ELSE LET below == L_range(b, bounds, base_panics) IN
         IF below.panic THEN Panicked
         ELSE Yields(DedupBy(MergeBy(MapRange(t.latest_block.new_or_updated_keys, bounds),
                                     FilterRemoved(below.items,
                                                   SetIter(t.latest_block.removed_keys)))))

\* ====================================================================
\* src/src/serde.rs : Serialize / Deserialize for Storage (storage.rs) and Cell
\* A serialized value is a number, null, or a map given by its entries
\* <<key, value>>; a struct is a sequence of <<field name, value>>. Results
\* are Ok(v) or Err(e).
\* ====================================================================
Num(n) == [t |-> "num", n |-> n, e |-> <<>>]
Null == [t |-> "null", n |-> 0, e |-> <<>>]
JMap(e) == [t |-> "map", n |-> 0, e |-> e]
Err(e) == [ok |-> FALSE, err |-> e]
Ok(v) == [ok |-> TRUE, v |-> v]

\* Option<V> as the serializer writes it: None is null, Some(v) is v
Ser_option(ov) == IF ov = None THEN Null ELSE Num(ov)
\* BlocksSerializeHelper: serialize_map over blocks.iter()
BlocksSerializeHelper(m) ==
    LET RECURSIVE From(_)
        From(k) == IF k > NumKeys THEN <<>>
                   ELSE IF m[k] # None THEN <<<<k, Num(m[k])>>>> \o From(k + 1)
                   ELSE From(k + 1)
    IN JMap(From(1))
\* BTreeMap<K, Option<V>> as serde writes it: every entry, ascending by key
Ser_rollback(log) ==
    LET RECURSIVE From(_)
        From(k) == IF k > NumKeys THEN <<>>
                   ELSE IF log[k] # NoEntry
                   THEN <<<<k, Ser_option(log[k])>>>> \o From(k + 1)
                   ELSE From(k + 1)
    IN JMap(From(1))

\* faulty variant: the rollback field is written as an empty map
S_serialize_empty_rollback(rollback, blocks) ==
    << <<"rollback", JMap(<<>>)>>,
       <<"blocks", BlocksSerializeHelper(blocks)>> >>

\* impl Serialize for Storage, over the two read handles
S_serialize(rollback, blocks) ==
    << <<"rollback", Ser_rollback(rollback)>>, <<"blocks", BlocksSerializeHelper(blocks)>> >>

\* impl Serialize for Cell, over the two read handles
C_serialize(rollback, blocks) ==
    << <<"rollback", Ser_option(rollback)>>, <<"blocks", Num(blocks)>> >>

\* the document a data format makes of a struct: a keyed object keeps the
\* field names, a sequence keeps only the values in order (its elements are
\* written <<"", value>>)
Document(shape, fields) ==
    [shape |-> shape,
     items |-> IF shape = "map" THEN fields
               ELSE [i \in 1..Len(fields) |-> <<"", fields[i][2]>>]]

\* V::deserialize for the value type (an unsigned number)
De_value(j) == IF j.t = "num" THEN Ok(j.n) ELSE Err("invalid_type")
\* OptionSeeded: visit_none / visit_some
OptionSeeded(j) == IF j.t = "null" THEN Ok(None) ELSE De_value(j)
\* next_entry_seed(..) collected into a map: a later entry replaces an
\* earlier one with the same key, the first error ends the collection
RECURSIVE CollectEntries(_, _, _)
CollectEntries(e, opt, acc) ==
    IF e = <<>> THEN Ok(acc)
    ELSE LET r == IF opt THEN OptionSeeded(Head(e)[2]) ELSE De_value(Head(e)[2]) IN
           IF ~r.ok THEN r
           ELSE CollectEntries(Tail(e), opt, [acc EXCEPT ![Head(e)[1]] = r.v])
\* BlocksDeserializeSeeded: deserialize_map with BlocksSeededVisitor
BlocksDeserializeSeeded(j) ==
    IF j.t # "map" THEN Err("invalid_type") ELSE CollectEntries(j.e, FALSE, EmptyMap)
\* RollbackDeserializeSeeded: deserialize_map with RollbackSeededVisitor
RollbackDeserializeSeeded(j) ==
    IF j.t # "map" THEN Err("invalid_type") ELSE CollectEntries(j.e, TRUE, EmptyLog)

\* the seeds of the two fields, per store
De_rollback(st, j) == IF st = "cell" THEN OptionSeeded(j) ELSE RollbackDeserializeSeeded(j)
De_blocks(st, j) == IF st = "cell" THEN De_value(j) ELSE BlocksDeserializeSeeded(j)

\* impl Deserialize for Field: FieldVisitor::visit_str
Field(name) ==
    IF name \in {"rollback", "blocks"} THEN Ok(name) ELSE Err("unknown_field")

\* faulty variant: a field with another name is skipped
RECURSIVE visit_map_skips_unknown(_, _, _, _)
visit_map_skips_unknown(st, items, rollback, blocks) ==
    IF items = <<>>
    THEN IF rollback = <<>> THEN Err("missing_field")
         ELSE IF blocks = <<>> THEN Err("missing_field")
         ELSE Ok([rollback |-> rollback[1], blocks |-> blocks[1]])
    ELSE LET key == Field(Head(items)[1])
             val == Head(items)[2]
         IN IF ~key.ok THEN visit_map_skips_unknown(st, Tail(items), rollback, blocks)
            ELSE IF key.v = "rollback"
            THEN IF rollback # <<>> THEN Err("duplicate_field")
                 ELSE LET r == De_rollback(st, val) IN
                        IF ~r.ok THEN r
                        ELSE visit_map_skips_unknown(st, Tail(items), <<r.v>>, blocks)
            ELSE IF blocks # <<>> THEN Err("duplicate_field")
                 ELSE LET r == De_blocks(st, val) IN
                        IF ~r.ok THEN r
                        ELSE visit_map_skips_unknown(st, Tail(items), rollback, <<r.v>>)

\* StorageSeededVisitor::visit_map / CellSeededVisitor::visit_map: the loop
\* over the object's fields (`rollback` and `blocks` are the two Option
\* locals, <<>> for None), then the two missing-field checks
RECURSIVE visit_map(_, _, _, _)
visit_map(st, items, rollback, blocks) ==
    IF items = <<>>
    THEN IF rollback = <<>> THEN Err("missing_field")
         ELSE IF blocks = <<>> THEN Err("missing_field")
         ELSE Ok([rollback |-> rollback[1], blocks |-> blocks[1]])
    ELSE LET key == Field(Head(items)[1])
             val == Head(items)[2]
         IN IF ~key.ok THEN key
            ELSE IF key.v = "rollback"
            THEN IF rollback # <<>> THEN Err("duplicate_field")
                 ELSE LET r == De_rollback(st, val) IN
                        IF ~r.ok THEN r
                        ELSE visit_map(st, Tail(items), <<r.v>>, blocks)
            ELSE IF blocks # <<>> THEN Err("duplicate_field")
                 ELSE LET r == De_blocks(st, val) IN
                        IF ~r.ok THEN r
                        ELSE visit_map(st, Tail(items), rollback, <<r.v>>)

\* StorageSeededVisitor::visit_seq / CellSeededVisitor::visit_seq
visit_seq(st, items) ==
    IF Len(items) < 1 THEN Err("invalid_length")
    ELSE LET rollback == De_rollback(st, items[1][2]) IN
           IF ~rollback.ok THEN rollback
           ELSE IF Len(items) < 2 THEN Err("invalid_length")
           ELSE LET blocks == De_blocks(st, items[2][2]) IN
                  IF ~blocks.ok THEN blocks
                  ELSE Ok([rollback |-> rollback.v, blocks |-> blocks.v])

\* deserialize_struct: a sequence goes to visit_seq, a keyed object to visit_map
Deserialize(st, doc) ==
    IF doc.shape = "seq" THEN visit_seq(st, doc.items)
    ELSE visit_map(st, doc.items, <<>>, <<>>)
\* ====================================================================
\* The state machine
\* ====================================================================
NumWriters == 2
Threads == 1..NumWriters
\* writes (insert / remove / get_mut calls) explored in one behaviour
MaxWrites == 3
\* the same, in behaviours with a concurrent reader
MaxWritesView == 3
\* the same, in behaviours with several writer threads
MaxWritesWriters == 2
\* the same, in behaviours with a reader next to Blocks with Transactions
MaxWritesReaderTx == 2
\* the same, in behaviours that start from any published state
MaxWritesIter == 2
\* the same, in behaviours of storage.rs that call len()
MaxWritesLen == 3

VARIABLES
    variant,        \* which store this behaviour works on
    writers,        \* the threads that open Blocks in this behaviour
    blocks,         \* published base map (Storage.blocks) / value (Cell.blocks)
    revert,         \* published rollback slot (storage.rs, cell.rs: .revert)
    latest_block,   \* published staging buffer (lib.rs: Storage.latest_block)
    slot_writer,    \* holder of the slot's write handle (EbrCell::write), 0 = free
    blocks_writer,  \* holder of the base map's write handle, 0 = free
    pc,             \* per thread: where its Block / Transaction is
    block,          \* per thread: the Block it holds
    tx,             \* per thread: the Transaction it holds
    view,           \* the reader's View
    gh,             \* history variables: reference map, last commit, last event
    out             \* what the call made in the last step returned (iter, range, len)

\* everything but out
state == <<variant, writers, blocks, revert, latest_block, slot_writer, blocks_writer,
           pc, block, tx, view, gh>>
vars == <<state, out>>

\* a Block / Transaction value for a thread that holds none
IdleBlock ==
    CASE variant = "storage" -> [revert |-> EmptyLog, blocks |-> EmptyMap]
      [] variant = "lib"     -> [latest_block |-> BlockInner_new, blocks |-> EmptyMap]
      [] variant = "cell"    -> [revert |-> None, blocks |-> 1]
IdleTx ==
    CASE variant = "storage" -> S_Block_transaction
      [] variant = "lib"     -> L_Block_transaction
      [] variant = "cell"    -> C_Block_transaction

\* View { latest_block: ..read(), blocks: ..read() } over the given handles:
\* what its get() returns for every key
ViewOf(lb, bl) ==
    CASE variant = "storage" -> [k \in Keys |-> S_get(bl, k)]
      [] variant = "lib"     -> [k \in Keys |-> L_get([latest_block |-> lb, blocks |-> bl], k)]
      [] variant = "cell"    -> bl
\* what a View taken now, with no writer step between its two reads, returns
ViewNow == ViewOf(latest_block, blocks)

\* what get() on thread t's Block returns for every key
BlockGet(t) ==
    CASE variant = "storage" -> [k \in Keys |-> S_get(block[t].blocks, k)]
      [] variant = "lib"     -> [k \in Keys |-> L_get(block[t], k)]
      [] variant = "cell"    -> block[t].blocks
\* what get() on thread t's Transaction returns for every key
TxGet(t) ==
    CASE variant = "storage" -> [k \in Keys |-> S_get(block[t].blocks, k)]
      [] variant = "lib"     -> [k \in Keys |-> L_Transaction_get(block[t], tx[t], k)]
      [] variant = "cell"    -> block[t].blocks

NoView == [phase |-> "none"]
\* the last step was no call that returns an iterator or a length
NoOut == [op |-> "none"]

\* the fields serialize() writes for the published state (storage.rs, cell.rs)
SerializeNow ==
    CASE variant = "storage" -> S_serialize(revert, blocks)
      [] variant = "cell"    -> C_serialize(revert, blocks)
      [] variant = "lib"     -> <<>>

\* a Block is opened or a write handle is published while the reader is
\* inside serialize(), between its two reads
SerObserve(vw) == IF vw.phase = "ser" THEN [vw EXCEPT !.quiet = FALSE] ELSE vw

\* History variables (read by no action's guard except the write budget):
\*   ref, prev : the reference map after / before the last committed block
\*   w, t      : the reference map with the live Block's / Transaction's writes
\*   rb, wrote : the live Block was opened with revert / has called a write
\*   last      : kind of the last committed block;  v1 : view() before it
\*   ev, bg    : the last step, and Block::get when the Transaction was created
\*   hist      : every committed state so far (kept when track is set)
\*   v0        : view() when the live Block was opened (view() now, when idle)
\*   s0        : what serialize() wrote right before the live Block was opened
\*   de        : "loaded" when the store was deserialized and has committed
\*               no block since, "reverted" when the first block committed
\*               since was a revert block without writes, "mixed" from
\*               the time a document written while a Block was opened or
\*               published is loaded (the history is then not the store's)
\*   lw        : the most recently committed block made a write call
\*   kw, kt    : storage.rs: the keys written by the live Block itself or by
\*               its applied Transactions, and by its last Transaction
\*               unless that one was applied
\*               (get_mut on an absent key writes nothing)
InitFor(vs, ws, budget, track) ==
    /\ variant \in vs
    /\ writers = ws
    /\ blocks \in IF variant = "cell" THEN Vals ELSE {EmptyMap}
    /\ revert = IF variant = "cell" THEN None ELSE EmptyLog
    /\ latest_block = BlockInner_new
    /\ slot_writer = 0
    /\ blocks_writer = 0
    /\ pc = [t \in Threads |-> "idle"]
    /\ block = [t \in Threads |-> IdleBlock]
    /\ tx = [t \in Threads |-> IdleTx]
    /\ view = NoView
    /\ out = NoOut
    /\ gh = [ref |-> blocks, prev |-> blocks, w |-> blocks, t |-> blocks,
             rb |-> FALSE, wrote |-> FALSE, last |-> "none", v1 |-> blocks,
             left |-> budget, ev |-> "", bg |-> blocks,
             hist |-> {blocks}, track |-> track, v0 |-> blocks,
             de |-> "", s0 |-> <<>>, lw |-> FALSE,
             kw |-> {}, kt |-> {}]

Init == InitFor({"storage", "lib", "cell"}, {1}, MaxWrites, FALSE)

\* the history after a step: the last event, and bg back to its idle value
Ev(g, e) == [g EXCEPT !.ev = e, !.bg = g.ref]

\* ---------------------------------------------------------------- opening
\* faulty variant: write() hands out a second write handle instead of waiting
Open1_no_wait(t, rb) ==
    /\ t \in writers
    /\ pc[t] = "idle"
    /\ slot_writer' = t
    /\ pc' = [pc EXCEPT ![t] = IF rb THEN "open_revert" ELSE "open"]
    /\ gh' = Ev(gh, "")
    /\ out' = NoOut
    /\ UNCHANGED <<variant, writers, blocks, revert, latest_block, blocks_writer,
                   block, tx, view>>

\* Storage::block / block_and_revert / block(bool), Cell::block /
\* block_and_revert, first statement: the slot's write handle. write() waits
\* while another thread holds the handle.
Open1(t, rb) ==
    /\ t \in writers
    /\ pc[t] = "idle"
    /\ slot_writer = 0
    /\ slot_writer' = t
    /\ pc' = [pc EXCEPT ![t] = IF rb THEN "open_revert" ELSE "open"]
    /\ gh' = Ev([gh EXCEPT !.v0 = ViewNow, !.s0 = SerializeNow], "")
    /\ view' = SerObserve(view)
    /\ out' = NoOut
    /\ UNCHANGED <<variant, writers, blocks, revert, latest_block, blocks_writer,
                   block, tx>>

\* the Block a thread gets from the published state
OpenBlock(rb) ==
    CASE variant = "storage" ->
            IF rb THEN S_block_and_revert(revert, blocks) ELSE S_block(revert, blocks)
      [] variant = "lib"     -> L_block(rb, latest_block, blocks)
      [] variant = "cell"    ->
            IF rb THEN C_block_and_revert(revert, blocks) ELSE C_block(revert, blocks)

\* faulty variant: the rollback log is cleared in the published cell, not
\* inside the write handle
Open2_clears_published(t) ==
    /\ pc[t] \in {"open", "open_revert"}
    /\ blocks_writer = 0
    /\ blocks_writer' = t
    /\ LET rb == pc[t] = "open_revert" IN
         /\ block' = [block EXCEPT ![t] = OpenBlock(rb)]
         /\ gh' = Ev([gh EXCEPT !.w = IF rb THEN gh.prev ELSE gh.ref,
                                !.t = IF rb THEN gh.prev ELSE gh.ref,
                                !.rb = rb, !.wrote = FALSE], "")
    /\ revert' = IF variant = "lib" THEN revert
                 ELSE IF variant = "cell" THEN None ELSE EmptyLog
    /\ pc' = [pc EXCEPT ![t] = "block"]
    /\ out' = NoOut
    /\ UNCHANGED <<variant, writers, blocks, latest_block, slot_writer, tx, view>>

\* second statement (the base map's write handle) and the rest of the body
Open2(t) ==
    /\ pc[t] \in {"open", "open_revert"}
    /\ blocks_writer = 0
    /\ blocks_writer' = t
    /\ LET rb == pc[t] = "open_revert" IN
         /\ block' = [block EXCEPT ![t] = OpenBlock(rb)]
         /\ gh' = Ev([gh EXCEPT !.w = IF rb THEN gh.prev ELSE gh.ref,
                                !.t = IF rb THEN gh.prev ELSE gh.ref,
                                !.rb = rb, !.wrote = FALSE], "")
    /\ pc' = [pc EXCEPT ![t] = "block"]
    /\ out' = NoOut
    /\ UNCHANGED <<variant, writers, blocks, revert, latest_block, slot_writer, tx, view>>

\* ---------------------------------------------------------------- Block
\* the history after a write of the live Block that leaves the reference map m
Wrote(m) == Ev([gh EXCEPT !.w = m, !.t = m, !.wrote = TRUE, !.left = gh.left - 1], "")
\* the history after a write of the live Transaction
TxWrote(m) == [gh EXCEPT !.t = m, !.wrote = TRUE, !.left = gh.left - 1, !.ev = ""]
\* the reference map after `if let Some(x) = map.get_mut(k) { *x = v }`
RefGetMut(m, k, v) == IF m[k] = None THEN m ELSE MapInsert(m, k, v)

\* Block::insert (storage.rs, lib.rs)
Insert(t, k, v) ==
    /\ gh.left > 0
    /\ variant \in {"storage", "lib"}
    /\ pc[t] = "block"
    /\ block' = [block EXCEPT ![t] =
                    IF variant = "storage" THEN S_Block_insert(block[t], k, v)
                    ELSE L_Block_insert(block[t], k, v)]
    /\ gh' = [Wrote(MapInsert(gh.w, k, v)) EXCEPT !.kw = IF variant = "storage" THEN @ \cup {k} ELSE @]
    /\ out' = NoOut
    /\ UNCHANGED <<variant, writers, blocks, revert, latest_block, slot_writer,
                   blocks_writer, pc, tx, view>>

\* Block::remove (storage.rs, lib.rs)
Remove(t, k) ==
    /\ gh.left > 0
    /\ variant \in {"storage", "lib"}
    /\ pc[t] = "block"
    /\ block' = [block EXCEPT ![t] =
                    IF variant = "storage" THEN S_Block_remove(block[t], k)
                    ELSE L_Block_remove(block[t], k)]
    /\ gh' = [Wrote(MapRemove(gh.w, k)) EXCEPT !.kw = IF variant = "storage" THEN @ \cup {k} ELSE @]
    /\ out' = NoOut
    /\ UNCHANGED <<variant, writers, blocks, revert, latest_block, slot_writer,
                   blocks_writer, pc, tx, view>>

\* Block::get_mut (storage.rs) and a store through the reference
GetMut(t, k, v) ==
    /\ gh.left > 0
    /\ variant = "storage"
    /\ pc[t] = "block"
    /\ block' = [block EXCEPT ![t] = S_Block_get_mut(block[t], k, v)]
    /\ gh' = [Wrote(RefGetMut(gh.w, k, v))
                 EXCEPT !.ev = IF block[t].blocks[k] = None THEN "get_mut_none"
                               ELSE "get_mut",
                        !.kw = IF block[t].blocks[k] = None THEN @ ELSE @ \cup {k}]
    /\ out' = NoOut
    /\ UNCHANGED <<variant, writers, blocks, revert, latest_block, slot_writer,
                   blocks_writer, pc, tx, view>>

\* Block::get_mut (cell.rs) and a store through the reference
CellGetMut(t, v) ==
    /\ gh.left > 0
    /\ variant = "cell"
    /\ pc[t] = "block"
    /\ block' = [block EXCEPT ![t] = C_Block_get_mut(block[t], v)]
    /\ gh' = Wrote(v)
    /\ out' = NoOut
    /\ UNCHANGED <<variant, writers, blocks, revert, latest_block, slot_writer,
                   blocks_writer, pc, tx, view>>

\* Block::transaction
Transaction(t) ==
    /\ pc[t] = "block"
    /\ pc' = [pc EXCEPT ![t] = "tx"]
    /\ tx' = [tx EXCEPT ![t] = IdleTx]
    /\ gh' = [gh EXCEPT !.t = gh.w, !.bg = BlockGet(t), !.ev = "", !.kt = {}]
    /\ out' = NoOut
    /\ UNCHANGED <<variant, writers, blocks, revert, latest_block, slot_writer,
                   blocks_writer, block, view>>

\* ---------------------------------------------------------------- Transaction
\* Transaction::insert (storage.rs writes through to the Block's map,
\* lib.rs writes to the private buffer)
TxInsert(t, k, v) ==
    /\ gh.left > 0
    /\ variant \in {"storage", "lib"}
    /\ pc[t] = "tx"
    /\ IF variant = "storage"
       THEN LET r == S_Transaction_insert(block[t], tx[t], k, v) IN
              /\ block' = [block EXCEPT ![t] = r[1]]
              /\ tx' = [tx EXCEPT ![t] = r[2]]
       ELSE /\ tx' = [tx EXCEPT ![t] = L_Transaction_insert(tx[t], k, v)]
            /\ block' = block
    /\ gh' = [TxWrote(MapInsert(gh.t, k, v)) EXCEPT !.kt = IF variant = "storage" THEN @ \cup {k} ELSE @]
    /\ out' = NoOut
    /\ UNCHANGED <<variant, writers, blocks, revert, latest_block, slot_writer,
                   blocks_writer, pc, view>>

\* Transaction::remove
TxRemove(t, k) ==
    /\ gh.left > 0
    /\ variant \in {"storage", "lib"}
    /\ pc[t] = "tx"
    /\ IF variant = "storage"
       THEN LET r == S_Transaction_remove(block[t], tx[t], k) IN
              /\ block' = [block EXCEPT ![t] = r[1]]
              /\ tx' = [tx EXCEPT ![t] = r[2]]
       ELSE /\ tx' = [tx EXCEPT ![t] = L_Transaction_remove(tx[t], k)]
            /\ block' = block
    /\ gh' = [TxWrote(MapRemove(gh.t, k)) EXCEPT !.kt = IF variant = "storage" THEN @ \cup {k} ELSE @]
    /\ out' = NoOut
    /\ UNCHANGED <<variant, writers, blocks, revert, latest_block, slot_writer,
                   blocks_writer, pc, view>>

\* Transaction::get_mut (storage.rs) and a store through the reference
TxGetMut(t, k, v) ==
    /\ gh.left > 0
    /\ variant = "storage"
    /\ pc[t] = "tx"
    /\ LET r == S_Transaction_get_mut(block[t], tx[t], k, v) IN
         /\ block' = [block EXCEPT ![t] = r[1]]
         /\ tx' = [tx EXCEPT ![t] = r[2]]
    /\ gh' = [TxWrote(RefGetMut(gh.t, k, v))
                 EXCEPT !.ev = IF block[t].blocks[k] = None THEN "get_mut_none"
                               ELSE "get_mut",
                        !.kt = IF block[t].blocks[k] = None THEN @ ELSE @ \cup {k}]
    /\ out' = NoOut
    /\ UNCHANGED <<variant, writers, blocks, revert, latest_block, slot_writer,
                   blocks_writer, pc, view>>

\* Transaction::get_mut (cell.rs) and a store through the reference
CellTxGetMut(t, v) ==
    /\ gh.left > 0
    /\ variant = "cell"
    /\ pc[t] = "tx"
    /\ LET r == C_Transaction_get_mut(block[t], tx[t], v) IN
         /\ block' = [block EXCEPT ![t] = r[1]]
         /\ tx' = [tx EXCEPT ![t] = r[2]]
    /\ gh' = TxWrote(v)
    /\ out' = NoOut
    /\ UNCHANGED <<variant, writers, blocks, revert, latest_block, slot_writer,
                   blocks_writer, pc, view>>

\* Transaction::apply. storage.rs and cell.rs: the body, after which the
\* destructor of `self` is still to run (pc "applied"); lib.rs has no destructor.
TxApply(t) ==
    /\ pc[t] = "tx"
    /\ CASE variant = "storage" ->
              LET r == S_Transaction_apply(block[t], tx[t]) IN
                /\ block' = [block EXCEPT ![t] = r[1]]
                /\ tx' = [tx EXCEPT ![t] = r[2]]
                /\ pc' = [pc EXCEPT ![t] = "applied"]
         [] variant = "cell" ->
              LET r == C_Transaction_apply(block[t], tx[t]) IN
                /\ block' = [block EXCEPT ![t] = r[1]]
                /\ tx' = [tx EXCEPT ![t] = r[2]]
                /\ pc' = [pc EXCEPT ![t] = "applied"]
         [] variant = "lib" ->
                /\ block' = [block EXCEPT ![t] = L_Transaction_apply(block[t], tx[t])]
                /\ tx' = [tx EXCEPT ![t] = IdleTx]
                /\ pc' = [pc EXCEPT ![t] = "block"]
    /\ gh' = [gh EXCEPT !.w = gh.t, !.ev = "tx_applied",
                        !.kw = @ \cup gh.kt, !.kt = {}]
    /\ out' = NoOut
    /\ UNCHANGED <<variant, writers, blocks, revert, latest_block, slot_writer,
                   blocks_writer, view>>

\* the Transaction goes out of scope: impl Drop for Transaction (storage.rs,
\* cell.rs), after apply() or without it; in lib.rs the private buffer is freed
TxDrop(t) ==
    /\ pc[t] \in {"tx", "applied"}
    /\ CASE variant = "storage" ->
              LET r == S_Transaction_drop(block[t], tx[t]) IN
                /\ block' = [block EXCEPT ![t] = r[1]]
                /\ tx' = [tx EXCEPT ![t] = r[2]]
         [] variant = "cell" ->
              LET r == C_Transaction_drop(block[t], tx[t]) IN
                /\ block' = [block EXCEPT ![t] = r[1]]
                /\ tx' = [tx EXCEPT ![t] = r[2]]
         [] variant = "lib" ->
                /\ block' = block
                /\ tx' = [tx EXCEPT ![t] = IdleTx]
    /\ pc' = [pc EXCEPT ![t] = "block"]
    /\ gh' = [gh EXCEPT !.t = gh.w,
                        !.ev = IF pc[t] = "applied" THEN "applied_dropped"
                               ELSE IF TxGet(t) # gh.bg THEN "tx_dropped_dirty"
                               ELSE "tx_dropped"]
    /\ out' = NoOut
    /\ UNCHANGED <<variant, writers, blocks, revert, latest_block, slot_writer,
                   blocks_writer, view>>

\* ---------------------------------------------------------------- commit, drop
\* faulty variant: the slot is published before the base map
Block_commit_order_swapped == <<"slot", "blocks">>

\* Block::commit: the order of its two statements
Block_commit_order == <<"blocks", "slot">>

\* the kind of the block being committed, for the history
CommitKind ==
    IF ~gh.rb THEN "normal"
    ELSE IF gh.wrote THEN "revert_dirty"
    ELSE IF gh.last = "normal" THEN "revert_clean_n"
    ELSE IF gh.last = "revert_dirty" THEN "revert_clean_d"
    ELSE "revert_clean_e"

\* the publication that makes a block visible to view(): storage.rs and
\* cell.rs Views read only `blocks`, lib.rs Views overlay the slot
Visible(what) == IF variant = "lib" THEN what = "slot" ELSE what = "blocks"

\* the history at that publication: the reference map takes the block's writes
GhostCommit ==
    [gh EXCEPT !.ref = gh.w, !.prev = IF gh.rb THEN gh.prev ELSE gh.ref,
               !.v1 = ViewNow, !.last = CommitKind, !.lw = gh.wrote,
               !.de = IF gh.de = "mixed" THEN "mixed"
                      ELSE IF gh.de = "loaded" /\ gh.rb /\ ~gh.wrote THEN "reverted"
                      ELSE "",
               !.hist = IF gh.track THEN @ \cup {gh.w} ELSE @]
GhostIdle(g) ==
    [g EXCEPT !.w = g.ref, !.t = g.ref, !.rb = FALSE, !.wrote = FALSE, !.s0 = <<>>,
              !.kw = {}, !.kt = {}]

\* a commit becomes visible while the reader is inside view(): for every key,
\* the value at the new commit boundary is one more value the View may show
ViewObserve(vw, newref) ==
    IF vw.phase = "half"
    THEN [vw EXCEPT !.acc = [k \in Keys |-> @[k] \cup {newref[k]}],
                    !.n = IF @ < 2 THEN @ + 1 ELSE @]
    ELSE vw

\* BptreeMapWriteTxn::commit / EbrCellWriteTxn::commit of one handle of the Block
Publish(t, what) ==
    /\ IF what = "blocks"
       THEN /\ blocks' = block[t].blocks
            /\ blocks_writer' = 0
            /\ UNCHANGED <<revert, latest_block, slot_writer>>
       ELSE /\ IF variant = "lib"
               THEN latest_block' = block[t].latest_block /\ revert' = revert
               ELSE revert' = block[t].revert /\ latest_block' = latest_block
            /\ slot_writer' = 0
            /\ UNCHANGED <<blocks, blocks_writer>>
    /\ view' = SerObserve(IF Visible(what) THEN ViewObserve(view, gh.w) ELSE view)

\* Block::commit, first statement
Commit1(t) ==
    /\ pc[t] = "block"
    /\ Publish(t, Block_commit_order[1])
    /\ pc' = [pc EXCEPT ![t] = "commit"]
    /\ gh' = Ev(IF Visible(Block_commit_order[1]) THEN GhostCommit ELSE gh, "")
    /\ out' = NoOut
    /\ UNCHANGED <<variant, writers, block, tx>>

\* Block::commit, second statement; the Block is gone
Commit2(t) ==
    /\ pc[t] = "commit"
    /\ Publish(t, Block_commit_order[2])
    /\ pc' = [pc EXCEPT ![t] = "idle"]
    /\ block' = [block EXCEPT ![t] = IdleBlock]
    /\ out' = NoOut
    /\ UNCHANGED <<variant, writers, tx>>
    /\ gh' = [Ev(GhostIdle(IF Visible(Block_commit_order[2]) THEN GhostCommit ELSE gh), "")
                 EXCEPT !.v0 = ViewNow']

\* faulty variant: the destructor publishes the slot's write handle
DropBlock_publishes_slot(t) ==
    /\ pc[t] = "block"
    /\ IF variant = "lib"
       THEN latest_block' = block[t].latest_block /\ revert' = revert
       ELSE revert' = block[t].revert /\ latest_block' = latest_block
    /\ slot_writer' = 0
    /\ blocks_writer' = 0
    /\ pc' = [pc EXCEPT ![t] = "idle"]
    /\ block' = [block EXCEPT ![t] = IdleBlock]
    /\ gh' = Ev(GhostIdle(gh), "block_dropped")
    /\ out' = NoOut
    /\ UNCHANGED <<variant, writers, blocks, tx, view>>

\* faulty variant: the destructor publishes the base map's write handle
DropBlock_publishes(t) ==
    /\ pc[t] = "block"
    /\ blocks' = block[t].blocks
    /\ slot_writer' = 0
    /\ blocks_writer' = 0
    /\ pc' = [pc EXCEPT ![t] = "idle"]
    /\ block' = [block EXCEPT ![t] = IdleBlock]
    /\ gh' = Ev(GhostIdle(gh), "block_dropped")
    /\ out' = NoOut
    /\ UNCHANGED <<variant, writers, revert, latest_block, tx, view>>

\* faulty variant: the destructor releases the base map's write handle only
DropBlock_leaks_slot(t) ==
    /\ pc[t] = "block"
    /\ blocks_writer' = 0
    /\ pc' = [pc EXCEPT ![t] = "idle"]
    /\ block' = [block EXCEPT ![t] = IdleBlock]
    /\ gh' = Ev(GhostIdle(gh), "block_dropped")
    /\ out' = NoOut
    /\ UNCHANGED <<variant, writers, blocks, revert, latest_block, slot_writer, tx, view>>

\* the Block goes out of scope without commit(): both write handles are
\* dropped, nothing is published
DropBlock(t) ==
    /\ pc[t] = "block"
    /\ slot_writer' = 0
    /\ blocks_writer' = 0
    /\ pc' = [pc EXCEPT ![t] = "idle"]
    /\ block' = [block EXCEPT ![t] = IdleBlock]
    /\ gh' = Ev(GhostIdle(gh), IF ~gh.wrote THEN "block_dropped"
                                ELSE IF gh.rb THEN "revert_block_dropped_dirty"
                                ELSE "block_dropped_dirty")
    /\ out' = NoOut
    /\ UNCHANGED <<variant, writers, blocks, revert, latest_block, tx, view>>

\* ---------------------------------------------------------------- specification
\* a thread's steps on a Block that every store has
CommonBlockNext(t) ==
    \/ \E rb \in BOOLEAN : Open1(t, rb)
    \/ Open2(t)
    \/ Commit1(t)
    \/ Commit2(t)
    \/ DropBlock(t)

\* a thread's steps on a Block
BlockNext(t) ==
    \/ CommonBlockNext(t)
    \/ \E k \in Keys, v \in Vals : Insert(t, k, v)
    \/ \E k \in Keys : Remove(t, k)
    \/ \E k \in Keys, v \in Vals : GetMut(t, k, v)
    \/ \E v \in Vals : CellGetMut(t, v)

\* a thread's steps on a Transaction of its Block
TxNext(t) ==
    \/ Transaction(t)
    \/ \E k \in Keys, v \in Vals : TxInsert(t, k, v)
    \/ \E k \in Keys : TxRemove(t, k)
    \/ \E k \in Keys, v \in Vals : TxGetMut(t, k, v)
    \/ \E v \in Vals : CellTxGetMut(t, v)
    \/ TxApply(t)
    \/ TxDrop(t)

Next == \E t \in Threads : BlockNext(t) \/ TxNext(t)

\* one thread that opens, fills and commits or drops Blocks
Spec == Init /\ [][Next]_vars

\* ---------------------------------------------------------------- reader
\* faulty variant: the View keeps only the slot's read handle and falls through to
\* the Storage's current base map
ViewGet_live_base(vw) == ViewOf(vw.latest_block, blocks)

\* what get() on a View returns for every key: it reads the View's own handles
ViewGet(vw) == ViewOf(vw.latest_block, vw.blocks)

\* Storage::view, lib.rs, first field: latest_block: self.latest_block.read()
View1 ==
    /\ variant = "lib"
    /\ view.phase = "none"
    /\ view' = [phase |-> "half", latest_block |-> latest_block,
                acc |-> [k \in Keys |-> {gh.ref[k]}], at |-> gh.ref, n |-> 0]
    /\ out' = NoOut
    /\ UNCHANGED <<variant, writers, blocks, revert, latest_block, slot_writer,
                   blocks_writer, pc, block, tx, gh>>

\* faulty variant: read() waits while a write handle of the base map is out
View2_waits_for_writer ==
    /\ variant = "lib"
    /\ view.phase = "half"
    /\ blocks_writer = 0
    /\ view' = [phase |-> "taken", latest_block |-> view.latest_block, blocks |-> blocks,
                seen |-> ViewOf(view.latest_block, blocks),
                during |-> \E k \in Keys : Cardinality(view.acc[k]) > 1]
    /\ out' = NoOut
    /\ UNCHANGED <<variant, writers, blocks, revert, latest_block, slot_writer,
                   blocks_writer, pc, block, tx, gh>>

\* Storage::view, lib.rs, second field: blocks: self.blocks.read()
View2 ==
    /\ variant = "lib"
    /\ view.phase = "half"
    /\ view' = [phase |-> "taken", latest_block |-> view.latest_block, blocks |-> blocks,
                seen |-> ViewOf(view.latest_block, blocks),
                during |-> \E k \in Keys : Cardinality(view.acc[k]) > 1]
    /\ out' = NoOut
    /\ UNCHANGED <<variant, writers, blocks, revert, latest_block, slot_writer,
                   blocks_writer, pc, block, tx, gh>>

\* faulty variant: Cell::view reads the rollback slot when it holds a value
ViewTake_reads_revert ==
    /\ variant \in {"storage", "cell"}
    /\ view.phase = "none"
    /\ LET bl == IF variant = "cell" /\ revert # None THEN revert ELSE blocks IN
         view' = [phase |-> "taken", latest_block |-> BlockInner_new, blocks |-> bl,
                  seen |-> ViewOf(BlockInner_new, bl), during |-> FALSE]
    /\ out' = NoOut
    /\ UNCHANGED <<variant, writers, blocks, revert, latest_block, slot_writer,
                   blocks_writer, pc, block, tx, gh>>

\* faulty variant: the View is handed the live write handle's working copy
ViewTake_reads_writer ==
    /\ variant \in {"storage", "cell"}
    /\ view.phase = "none"
    /\ LET bl == IF blocks_writer = 0 THEN blocks ELSE block[blocks_writer].blocks IN
         view' = [phase |-> "taken", latest_block |-> BlockInner_new, blocks |-> bl,
                  seen |-> ViewOf(BlockInner_new, bl), during |-> FALSE]
    /\ out' = NoOut
    /\ UNCHANGED <<variant, writers, blocks, revert, latest_block, slot_writer,
                   blocks_writer, pc, block, tx, gh>>

\* Storage::view (storage.rs), Cell::view : blocks: self.blocks.read()
ViewTake ==
    /\ variant \in {"storage", "cell"}
    /\ view.phase = "none"
    /\ view' = [phase |-> "taken", latest_block |-> BlockInner_new, blocks |-> blocks,
                seen |-> ViewOf(BlockInner_new, blocks), during |-> FALSE]
    /\ out' = NoOut
    /\ UNCHANGED <<variant, writers, blocks, revert, latest_block, slot_writer,
                   blocks_writer, pc, block, tx, gh>>

\* the View goes out of scope
ViewDrop ==
    /\ view.phase = "taken"
    /\ view' = NoView
    /\ out' = NoOut
    /\ UNCHANGED <<variant, writers, blocks, revert, latest_block, slot_writer,
                   blocks_writer, pc, block, tx, gh>>

ReaderNext == View1 \/ View2 \/ ViewTake \/ ViewDrop

\* one writer thread and one reader thread, on any of the three stores
InitView == InitFor({"storage", "lib", "cell"}, {1}, MaxWritesView, FALSE)
\* (a Transaction changes nothing that is published: the writer uses none here)
NextView == (\E t \in Threads : BlockNext(t)) \/ ReaderNext
SpecView == InitView /\ [][NextView]_vars

\* lib.rs alone: one writer thread, one reader thread whose view() takes its
\* two handles in two steps; every committed state is recorded
InitLibReader == InitFor({"lib"}, {1}, MaxWritesView, TRUE)
NextLibReader ==
    \/ \E t \in Threads :
          \/ CommonBlockNext(t)
          \/ \E k \in Keys, v \in Vals : Insert(t, k, v)
          \/ \E k \in Keys : Remove(t, k)
    \/ View1
    \/ View2
    \/ ViewDrop
SpecLibReader == InitLibReader /\ [][NextLibReader]_vars

\* one writer thread that also uses Transactions, and one reader thread
InitReaderTx == InitFor({"storage", "lib", "cell"}, {1}, MaxWritesReaderTx, FALSE)
NextReaderTx == (\E t \in Threads : BlockNext(t) \/ TxNext(t)) \/ ReaderNext
SpecReaderTx == InitReaderTx /\ [][NextReaderTx]_vars

\* ---------------------------------------------------------------- iterators
\* iter() and range() borrow their handle; the calls are made one at a time,
\* each iterator run to its end and dropped before the next call (out = NoOut)
\* the handles of the reader's View
ViewHandles == [latest_block |-> view.latest_block, blocks |-> view.blocks]

\* View::iter (lib.rs), run to its end
ViewIter ==
    /\ out = NoOut
    /\ variant = "lib"
    /\ view.phase = "taken"
    /\ out' = [op |-> "iter", on |-> "view", items |-> L_iter(ViewHandles)]
    /\ UNCHANGED state

\* Block::iter (lib.rs), run to its end
BlockIter(t) ==
    /\ out = NoOut
    /\ variant = "lib"
    /\ pc[t] = "block"
    /\ out' = [op |-> "iter", on |-> "block", items |-> L_iter(block[t])]
    /\ UNCHANGED state

\* Transaction::iter (lib.rs), run to its end
TxIter(t) ==
    /\ out = NoOut
    /\ variant = "lib"
    /\ pc[t] = "tx"
    /\ out' = [op |-> "iter", on |-> "tx", items |-> L_Transaction_iter(block[t], tx[t])]
    /\ UNCHANGED state

\* View::range (lib.rs), run to its end
ViewRange(bounds, base_panics) ==
    /\ out = NoOut
    /\ variant = "lib"
    /\ view.phase = "taken"
    /\ out' = [op |-> "range", on |-> "view", bounds |-> bounds,
               res |-> L_range(ViewHandles, bounds, base_panics)]
    /\ UNCHANGED state

\* Block::range (lib.rs), run to its end
BlockRange(t, bounds, base_panics) ==
    /\ out = NoOut
    /\ variant = "lib"
    /\ pc[t] = "block"
    /\ out' = [op |-> "range", on |-> "block", bounds |-> bounds,
               res |-> L_range(block[t], bounds, base_panics)]
    /\ UNCHANGED state

\* Transaction::range (lib.rs), run to its end
TxRange(t, bounds, base_panics) ==
    /\ out = NoOut
    /\ variant = "lib"
    /\ pc[t] = "tx"
    /\ out' = [op |-> "range", on |-> "tx", bounds |-> bounds,
               res |-> L_Transaction_range(block[t], tx[t], bounds, base_panics)]
    /\ UNCHANGED state

\* lib.rs from any published state: the base map holds any entries, the
\* published staging buffer any tombstones and overrides (a key is in both
\* after a Block removed it and an applied Transaction inserted it); the
\* last committed block was a normal one. Behaviours with a writer start
\* with an empty staging buffer.
InitLibAny ==
    /\ variant = "lib"
    /\ writers \in {{}, {1}}
    /\ blocks \in Maps
    /\ revert = EmptyLog
    /\ latest_block \in IF writers = {}
                        THEN [removed_keys : SUBSET Keys, new_or_updated_keys : Maps]
                        ELSE {BlockInner_new}
    /\ slot_writer = 0
    /\ blocks_writer = 0
    /\ pc = [t \in Threads |-> "idle"]
    /\ block = [t \in Threads |-> IdleBlock]
    /\ tx = [t \in Threads |-> IdleTx]
    /\ view = NoView
    /\ out = NoOut
    /\ gh = [ref |-> ViewNow, prev |-> blocks, w |-> ViewNow, t |-> ViewNow,
             rb |-> FALSE, wrote |-> FALSE, last |-> "normal", v1 |-> blocks,
             left |-> MaxWritesIter, ev |-> "", bg |-> ViewNow,
             hist |-> {ViewNow}, track |-> FALSE, v0 |-> ViewNow,
             de |-> "", s0 |-> <<>>, lw |-> latest_block # BlockInner_new,
             kw |-> {}, kt |-> {}]

\* a Block is opened, written to and dropped (its commit leads to one more
\* of the initial states), Transactions and Views are used, and iter() and
\* range() are called on the three handles
NextLibAny ==
    \/ \E t \in Threads :
          \/ \E rb \in BOOLEAN : Open1(t, rb)
          \/ Open2(t)
          \/ DropBlock(t)
          \/ \E k \in Keys, v \in Vals : Insert(t, k, v)
          \/ \E k \in Keys : Remove(t, k)
          \/ Transaction(t)
          \/ \E k \in Keys, v \in Vals : TxInsert(t, k, v)
          \/ \E k \in Keys : TxRemove(t, k)
          \/ TxApply(t)
          \/ TxDrop(t)
          \/ BlockIter(t)
          \/ TxIter(t)
          \/ \E lo \in AllBounds, hi \in AllBounds, bp \in BOOLEAN : BlockRange(t, <<lo, hi>>, bp)
          \/ \E lo \in AllBounds, hi \in AllBounds, bp \in BOOLEAN : TxRange(t, <<lo, hi>>, bp)
    \/ View1
    \/ View2
    \/ ViewDrop
    \/ ViewIter
    \/ \E lo \in AllBounds, hi \in AllBounds, bp \in BOOLEAN : ViewRange(<<lo, hi>>, bp)
SpecLibAny == InitLibAny /\ [][NextLibAny]_vars

\* ---------------------------------------------------------------- len
\* faulty variant: the length is read from the Storage, not from the View
ViewLen_published ==
    /\ out = NoOut
    /\ variant = "storage"
    /\ view.phase = "taken"
    /\ out' = [op |-> "len", on |-> "view", n |-> S_len(blocks)]
    /\ UNCHANGED state

\* View::len (storage.rs)
ViewLen ==
    /\ out = NoOut
    /\ variant = "storage"
    /\ view.phase = "taken"
    /\ out' = [op |-> "len", on |-> "view", n |-> S_len(view.blocks)]
    /\ UNCHANGED state

\* Block::len (storage.rs)
BlockLen(t) ==
    /\ out = NoOut
    /\ variant = "storage"
    /\ pc[t] = "block"
    /\ out' = [op |-> "len", on |-> "block", n |-> S_len(block[t].blocks)]
    /\ UNCHANGED state

\* Transaction::len (storage.rs): self.block.len()
TxLen(t) ==
    /\ out = NoOut
    /\ variant = "storage"
    /\ pc[t] = "tx"
    /\ out' = [op |-> "len", on |-> "tx", n |-> S_len(block[t].blocks)]
    /\ UNCHANGED state

\* storage.rs: one writer thread with Transactions, one reader thread, and
\* len() called on the three handles
InitLen == InitFor({"storage"}, {1}, MaxWritesLen, FALSE)
NextLen ==
    \/ \E t \in Threads :
          \/ CommonBlockNext(t)
          \/ \E k \in Keys, v \in Vals : Insert(t, k, v)
          \/ \E k \in Keys : Remove(t, k)
          \/ \E k \in Keys, v \in Vals : GetMut(t, k, v)
          \/ Transaction(t)
          \/ \E k \in Keys, v \in Vals : TxInsert(t, k, v)
          \/ \E k \in Keys : TxRemove(t, k)
          \/ \E k \in Keys, v \in Vals : TxGetMut(t, k, v)
          \/ TxApply(t)
          \/ TxDrop(t)
          \/ BlockLen(t)
          \/ TxLen(t)
    \/ ViewTake
    \/ ViewDrop
    \/ ViewLen
SpecLen == InitLen /\ [][NextLen]_vars

\* several writer threads
InitWriters == InitFor({"storage", "lib", "cell"}, Threads, MaxWritesWriters, FALSE)
NextWriters == \E t \in Threads : BlockNext(t)
SpecWriters == InitWriters /\ [][NextWriters]_vars
\* the same under fair scheduling: a thread that calls block() or
\* block_and_revert() gets the slot's write handle if it is free again and
\* again, a thread inside block() or commit() goes on, and a thread that
\* holds a Block ends it with commit() or by dropping it
SpecWritersFair ==
    /\ InitWriters
    /\ [][NextWriters]_vars
    /\ \A t \in Threads :
          /\ SF_vars(\E rb \in BOOLEAN : Open1(t, rb))
          /\ WF_vars(Open2(t))
          /\ WF_vars(Commit1(t) \/ DropBlock(t))
          /\ WF_vars(Commit2(t))


\* ====================================================================
\* Properties
\* ====================================================================
AllIdle == \A t \in Threads : pc[t] = "idle"

\* the publication of thread t's commit that makes its block visible to view()
CommitVisible(t) == IF Visible(Block_commit_order[1]) THEN Commit1(t) ELSE Commit2(t)

\* C1: whenever no Block is live, after any sequence of blocks that were
\* filled with writes and then committed or dropped, view() returns for every
\* key what the reference map holds, on which only the writes of the committed
\* blocks were replayed (storage.rs and lib.rs).
C1_ViewMatchesReference ==
    (variant \in {"storage", "lib"} /\ AllIdle) => ViewNow = gh.ref

\* C1 witness: a block with writes was committed, a later block with writes
\* has just been dropped, and the view is not empty.
C1_Witness ==
    /\ variant = "lib"
    /\ AllIdle
    /\ gh.last = "normal"
    /\ gh.ev = "block_dropped_dirty"
    /\ ViewNow # EmptyMap

\* C2: a View returns, for every key, what it returned when it was created,
\* whatever blocks are opened, committed or dropped afterwards.
C2_ViewPersistent ==
    view.phase = "taken" => ViewGet(view) = view.seen

\* C2 witness: a View is held while a later revert block has been committed
\* and a view() taken now returns something else.
C2_Witness ==
    /\ view.phase = "taken"
    /\ AllIdle
    /\ gh.last = "revert_clean_n"
    /\ ViewNow # view.seen

\* C3: when a revert block that made no writes is committed right after a
\* committed normal block B, a new view() returns for every key what view()
\* returned before B was committed (storage.rs and lib.rs).
C3_SingleStepRollback ==
    [][\A t \in Threads :
         (/\ CommitVisible(t)
          /\ variant \in {"storage", "lib"}
          /\ gh.rb /\ ~gh.wrote /\ gh.last = "normal")
         => ViewNow' = gh.v1]_vars

\* C3 witness: such a revert block has been committed and it changed what
\* view() returns (B had written), leaving a non-empty state.
C3_Witness ==
    /\ variant \in {"storage", "lib"}
    /\ AllIdle
    /\ gh.last = "revert_clean_n"
    /\ ViewNow # gh.v1
    /\ ViewNow # EmptyMap


\* C4: committing a revert block that made no writes while the rollback log
\* is empty (no block was ever committed, or the last committed block was a
\* revert block without writes) leaves what view() returns unchanged.
C4_RevertOnEmptyLogIsNoOp ==
    [][\A t \in Threads :
         (/\ CommitVisible(t)
          /\ gh.rb /\ ~gh.wrote
          /\ gh.last \in {"none", "revert_clean_n", "revert_clean_e", "revert_clean_d"})
         => ViewNow' = ViewNow]_vars

\* C4 witness: the second of two consecutive revert blocks without writes has
\* been committed on a store that holds committed entries.
C4_Witness ==
    /\ variant = "storage"
    /\ AllIdle
    /\ gh.last = "revert_clean_e"
    /\ ViewNow # EmptyMap

\* C5: when a Transaction is dropped without apply(), get() on the enclosing
\* Block returns for every key what it returned just before the Transaction
\* was created; a Transaction created next reads the same; and the view()
\* after the Block's commit is the reference map, which never took the
\* dropped Transaction's writes (storage.rs and lib.rs).
C5_TransactionDropDiscards ==
    [][\A t \in Threads :
         variant \in {"storage", "lib"} =>
            /\ (TxDrop(t) /\ pc[t] = "tx") => BlockGet(t)' = gh.bg
            /\ Transaction(t) => TxGet(t)' = BlockGet(t)
            /\ CommitVisible(t) => ViewNow' = gh.w]_vars

\* C5 witness: a Transaction that had changed what get() returns has just
\* been dropped without apply().
C5_Witness ==
    /\ variant = "storage"
    /\ gh.ev = "tx_dropped_dirty"
    /\ \E t \in Threads : pc[t] = "block" /\ BlockGet(t) = gh.bg /\ gh.bg # EmptyMap

\* C6: right after Transaction::apply(), get() on the Block returns for every
\* key what get() on the Transaction returned right before it, and the view()
\* after the Block's commit returns what get() on the Block returned
\* (storage.rs and lib.rs).
C6_TransactionApply ==
    [][\A t \in Threads :
         variant \in {"storage", "lib"} =>
            /\ TxApply(t) => BlockGet(t)' = TxGet(t)
            /\ CommitVisible(t) => ViewNow' = BlockGet(t)]_vars

\* C6 witness: a Transaction has just been applied in lib.rs, it changed what
\* the Block returns, and a key the Block had removed itself was inserted by
\* the Transaction (it is now an override and a tombstone).
C6_Witness ==
    /\ variant = "lib"
    /\ gh.ev = "tx_applied"
    /\ \E t \in Threads :
         /\ pc[t] = "block"
         /\ BlockGet(t) # gh.bg
         /\ \E k \in Keys : /\ k \in block[t].latest_block.removed_keys
                            /\ block[t].latest_block.new_or_updated_keys[k] # None

\* C7: the destructor that runs after apply() changes neither the Block's map
\* nor its rollback log (storage.rs), neither its value nor its rollback slot
\* (cell.rs): the private inverse diff is empty by then.
C7_ApplyThenDropIsApply ==
    [][\A t \in Threads :
         (TxDrop(t) /\ pc[t] = "applied") => (block'[t] = block[t] /\ tx[t] = IdleTx)]_vars

\* C7 witness: an applied Transaction that had changed the Block has gone out
\* of scope.
C7_Witness ==
    /\ variant = "storage"
    /\ gh.ev = "applied_dropped"
    /\ \E t \in Threads : pc[t] = "block" /\ BlockGet(t) # gh.bg

\* C8: in lib.rs a View whose two handles were read with any writer steps
\* between and around the two reads returns, for every key, one of the
\* committed states: the state after some prefix of the committed blocks.
C8_ViewAtCommitBoundary ==
    (variant = "lib" /\ view.phase = "taken") => ViewGet(view) \in gh.hist

\* C9: Block::commit publishes the base map first and the slot second, and in
\* lib.rs a View created between the two publications of block N's commit
\* returns the state committed before block N.
C9_CommitOrder ==
    [][\A t \in Threads :
         /\ Commit1(t) => /\ blocks' = block[t].blocks
                          /\ latest_block' = latest_block /\ revert' = revert
                          /\ slot_writer' = t /\ blocks_writer' = 0
         /\ Commit2(t) => /\ blocks' = blocks
                          /\ IF variant = "lib"
                             THEN latest_block' = block[t].latest_block
                             ELSE revert' = block[t].revert
                          /\ slot_writer' = 0
         /\ (variant = "lib" /\ Commit1(t)) => ViewNow' = gh.ref]_vars

\* C9 witness: lib.rs between the two publications of the commit of a block
\* with writes that follows a committed block with writes; the block's own
\* state differs from what a View shows now.
C9_Witness ==
    /\ variant = "lib"
    /\ gh.wrote
    /\ gh.last = "normal"
    /\ latest_block # BlockInner_new
    /\ ViewNow # gh.prev
    /\ \E t \in Threads : pc[t] = "commit" /\ BlockGet(t) # ViewNow

\* thread t holds a Block
HoldsBlock(t) == pc[t] \in {"block", "tx", "applied", "commit"}

\* C10: no two threads hold a Block of the same store at once, and while a
\* thread holds one, no other thread's block() / block_and_revert() can take
\* its first step: it waits.
C10_SingleLiveBlock ==
    \A t \in Threads :
        HoldsBlock(t) =>
            /\ \A u \in Threads \ {t} : ~HoldsBlock(u) /\ pc[u] = "idle"
            /\ \A u \in Threads \ {t}, rb \in BOOLEAN : ~ENABLED Open1(u, rb)

\* C10 witness: a thread holds a Block it has written to, after an earlier
\* block was committed, while the other writer thread is waiting to open one.
C10_Witness ==
    /\ gh.last = "normal"
    /\ gh.wrote
    /\ \E t \in writers, u \in writers :
          /\ t # u
          /\ pc[t] = "block"
          /\ slot_writer = t
          /\ pc[u] = "idle"

\* C11: view() can take each of its steps in every state (a Block live, a
\* Transaction live, between the two publications of a commit), and every
\* step of the writer that its own position allows is enabled whether or not
\* a View is held or being created.
C11_ReadersWritersIndependent ==
    /\ view.phase = "none" => ENABLED (View1 \/ ViewTake)
    /\ view.phase = "half" => ENABLED View2
    /\ \A t \in Threads :
         /\ (t \in writers /\ pc[t] = "idle" /\ slot_writer = 0)
                => \A rb \in BOOLEAN : ENABLED Open1(t, rb)
         /\ (pc[t] \in {"open", "open_revert"} /\ blocks_writer = 0) => ENABLED Open2(t)
         /\ pc[t] = "block"
                => /\ ENABLED Commit1(t) /\ ENABLED DropBlock(t) /\ ENABLED Transaction(t)
                   /\ (gh.left > 0 /\ variant # "cell")
                         => \A k \in Keys : ENABLED Insert(t, k, 1) /\ ENABLED Remove(t, k)
                   /\ (gh.left > 0 /\ variant = "cell") => ENABLED CellGetMut(t, 1)
         /\ pc[t] = "tx"
                => /\ ENABLED TxApply(t) /\ ENABLED TxDrop(t)
                   /\ (gh.left > 0 /\ variant # "cell")
                         => \A k \in Keys : ENABLED TxInsert(t, k, 1) /\ ENABLED TxRemove(t, k)
                   /\ (gh.left > 0 /\ variant = "cell") => ENABLED CellTxGetMut(t, 1)
         /\ pc[t] = "applied" => ENABLED TxDrop(t)
         /\ pc[t] = "commit" => ENABLED Commit2(t)

\* C11 witness: in lib.rs the reader is between its two reads while the
\* writer, with writes in its Block, is between the two publications of its
\* commit.
C11_Witness ==
    /\ variant = "lib"
    /\ view.phase = "half"
    /\ gh.wrote
    /\ blocks # EmptyMap
    /\ \E t \in Threads : pc[t] = "commit"

\* C12: when a Block, opened normally or with revert, is dropped without
\* commit() after any writes and transactions, nothing published changes and
\* view() returns for every key what it returned before the Block was opened,
\* which is the reference map of the committed blocks; the Block opened next
\* starts from the committed state, without the dropped Block's writes.
C12_DropBlockNoEffect ==
    [][\A t \in Threads :
         /\ DropBlock(t) => /\ ViewNow' = gh.v0
                            /\ ViewNow' = gh.ref
                            /\ blocks' = blocks /\ revert' = revert
                            /\ latest_block' = latest_block
         /\ Open2(t) => BlockGet(t)' = (IF pc[t] = "open_revert" THEN gh.prev ELSE gh.ref)]_vars

\* C12 witness: a Block opened with revert after a committed normal block
\* that had changed the state was written to and dropped; the state the
\* dropped Block showed differs from the committed one.
C12_Witness ==
    /\ variant \in {"storage", "lib"}
    /\ AllIdle
    /\ gh.ev = "revert_block_dropped_dirty"
    /\ gh.last = "normal"
    /\ ViewNow # gh.prev
    /\ ViewNow # EmptyMap

\* a Block is live and its commit() has not started
BlockLive == \E t \in Threads : pc[t] \in {"block", "tx", "applied"}

\* C13: a View created while a Block is live, whatever the Block and its
\* Transaction have written so far, returns for every key the value of the
\* last committed state (lib.rs: both reads of view() fall in the Block's
\* life, so the slot it read is still the published one).
C13_UncommittedInvisible ==
    [][BlockLive =>
         /\ ViewTake => ViewGet(view)' = gh.ref
         /\ (View2 /\ view.latest_block = latest_block) => ViewGet(view)' = gh.ref]_vars

\* C13 witness: storage.rs, a Transaction has written through to the Block's
\* map, so the Block reads something else than the committed state, and a
\* View over the published map is held.
C13_Witness ==
    /\ variant = "storage"
    /\ view.phase = "taken"
    /\ view.blocks = blocks
    /\ gh.ref # EmptyMap
    /\ \E t \in Threads : pc[t] = "tx" /\ TxGet(t) # gh.ref /\ TxGet(t) # gh.bg

\* C14: a view() reflects every block whose commit() returned before it
\* started and later commits only as far as they became visible before it
\* completed: for every key it returns the key's value at a commit boundary
\* between its start and its completion (storage.rs, cell.rs: one read, the
\* committed state at that moment). A View completed before a commit() keeps
\* what it returned through both publications of that commit. So of two
\* views, one completed before the other started, the later one is for no
\* key older than the earlier one.
C14_CommitVisibility ==
    [][/\ ViewTake => ViewGet(view)' = gh.ref
       /\ View2 => \A k \in Keys : ViewGet(view)'[k] \in view.acc[k]
       /\ (View2 /\ ~view'.during) => ViewGet(view)' = gh.ref
       /\ \A t \in Threads :
            ((Commit1(t) \/ Commit2(t)) /\ view.phase = "taken")
               => ViewGet(view)' = view.seen]_vars

\* C14 witness: lib.rs, a View was completed after a commit that changed some
\* key became visible during view(), and a commit after its completion made
\* the committed state differ from what the View returns.
C14_Witness ==
    /\ variant = "lib"
    /\ view.phase = "taken"
    /\ view.during
    /\ AllIdle
    /\ ViewGet(view) # gh.ref
    /\ ViewGet(view) # EmptyMap

\* the keys of a sequence of entries ascend strictly
Ascending(items) ==
    \A i \in 1..Len(items), j \in 1..Len(items) : i < j => items[i][1] < items[j][1]
\* <<k, v>> is among the entries
Emits(items, k, v) == \E i \in 1..Len(items) : items[i] = <<k, v>>
\* the entries are those of the overrides, and those of the entries below
\* whose key is neither overridden nor tombstoned
OverlayOf(items, inner, below) ==
    \A k \in Keys, v \in Vals :
        Emits(items, k, v) <=>
            \/ inner.new_or_updated_keys[k] = v
            \/ /\ inner.new_or_updated_keys[k] = None
               /\ k \notin inner.removed_keys
               /\ below[k] = v

\* C15: in lib.rs iter() on a View, a Block and a Transaction yields strictly
\* ascending keys, each once; an overridden key comes with the override's
\* value, and a key of the map below that is tombstoned and not overridden
\* does not come at all. It yields what get() returns key by key.
C15_IterOrderedOverlay ==
    out.op = "iter" =>
        /\ Ascending(out.items)
        /\ \A i \in 1..Len(out.items) : out.items[i][1] \in Keys /\ out.items[i][2] \in Vals
        /\ out.on = "view" =>
               /\ OverlayOf(out.items, view.latest_block, view.blocks)
               /\ out.items = MapIter(ViewGet(view))
        /\ out.on = "block" =>
               \A t \in Threads : pc[t] = "block" =>
                   /\ OverlayOf(out.items, block[t].latest_block, block[t].blocks)
                   /\ out.items = MapIter(BlockGet(t))
        /\ out.on = "tx" =>
               \A t \in Threads : pc[t] = "tx" =>
                   /\ OverlayOf(out.items, tx[t].latest_block, BlockGet(t))
                   /\ out.items = MapIter(TxGet(t))

\* C15 witness: iter() on a Block whose base map holds two keys, one of them
\* overridden with another value and the other tombstoned.
C15_Witness ==
    /\ out.op = "iter"
    /\ out.on = "block"
    /\ \E t \in Threads :
          /\ pc[t] = "block"
          /\ \E k \in Keys, j \in Keys :
                /\ block[t].blocks[k] # None
                /\ block[t].latest_block.new_or_updated_keys[k] # None
                /\ block[t].latest_block.new_or_updated_keys[k] # block[t].blocks[k]
                /\ block[t].blocks[j] # None
                /\ j \in block[t].latest_block.removed_keys
                /\ block[t].latest_block.new_or_updated_keys[j] = None

\* what iter() yields on the handle the last call was made on
IterOfCalled ==
    CASE out.on = "view"  -> L_iter(ViewHandles)
      [] out.on = "block" -> L_iter(block[CHOOSE t \in Threads : pc[t] = "block"])
      [] out.on = "tx"    -> LET t == CHOOSE t \in Threads : pc[t] = "tx"
                             IN L_Transaction_iter(block[t], tx[t])
\* the entries of iter() whose keys satisfy the bounds of the last call
IterWithinBounds ==
    LET In(e) == InBounds(e[1], out.bounds) IN SelectSeq(IterOfCalled, In)

GetOfCalled ==
    CASE out.on = "view"  -> ViewGet(view)
      [] out.on = "block" -> BlockGet(CHOOSE t \in Threads : pc[t] = "block")
      [] out.on = "tx"    -> TxGet(CHOOSE t \in Threads : pc[t] = "tx")

\* C17: in storage.rs len() of a View, a Block and a Transaction is the
\* number of entries iter() yields on the same handle, which is the number
\* of keys for which get() returns a value.
C17_LenCountsEntries ==
    out.op = "len" =>
        /\ out.n = Len(S_iter(GetOfCalled))
        /\ out.n = Cardinality({k \in Keys : GetOfCalled[k] # None})

\* C17 witness: len() on a View that was taken before a later committed
\* block removed a key: the View still counts two keys, one with an
\* overwritten value, a view() taken now fewer.
C17_Witness ==
    /\ out.op = "len"
    /\ out.on = "view"
    /\ out.n = 2
    /\ S_len(blocks) < 2
    /\ AllIdle

\* C18: a View of a Cell taken after the i-th commit returns the value that
\* commit left (the initial value before the first), and returns the same
\* value at every later step, whatever blocks are committed, reverted or
\* dropped.
C18_CellViewPersistent ==
    [][variant = "cell" =>
         /\ ViewTake => ViewGet(view)' = gh.ref
         /\ (view.phase = "taken" /\ view'.phase = "taken")
               => (ViewGet(view)' = ViewGet(view) /\ ViewGet(view)' = view.seen)]_vars

\* C18 witness: a Cell View is held whose value differs from the committed
\* one, after a later normal block was committed and one more block with a
\* write was dropped.
C18_Witness ==
    /\ variant = "cell"
    /\ view.phase = "taken"
    /\ AllIdle
    /\ gh.last = "normal"
    /\ gh.ev = "block_dropped_dirty"
    /\ ViewGet(view) # ViewNow

\* C19: in a Cell, committing a revert block without writes right after a
\* committed normal block makes view() return the value from before that
\* block, a View held from before the revert keeps its value, and committing
\* one more revert block without writes leaves the value as it is.
C19_CellRollback ==
    [][\A t \in Threads :
         (variant = "cell" /\ CommitVisible(t) /\ gh.rb /\ ~gh.wrote) =>
            /\ gh.last = "normal" => ViewNow' = gh.v1
            /\ gh.last = "revert_clean_n" => ViewNow' = ViewNow
            /\ view.phase = "taken" => ViewGet(view)' = view.seen]_vars

\* C19 witness: a Cell after two writes; a block that changed the value was
\* committed, a View was taken, and two revert blocks were committed;
\* the View returns the changed value, view() the one before.
C19_Witness ==
    /\ variant = "cell"
    /\ AllIdle
    /\ gh.last = "revert_clean_e"
    /\ view.phase = "taken"
    /\ ViewGet(view) # ViewNow
    /\ gh.left <= MaxWritesView - 2

\* C20: in a Cell Block, dropping a Transaction without apply() restores the
\* Block's value to what it was when the Transaction was created; apply()
\* keeps the Transaction's value, also through the destructor that follows;
\* and the view() after commit returns the value left by the last applied
\* write.
C20_CellTransaction ==
    [][\A t \in Threads :
         variant = "cell" =>
            /\ (TxDrop(t) /\ pc[t] = "tx") => BlockGet(t)' = gh.bg
            /\ TxApply(t) => BlockGet(t)' = TxGet(t)
            /\ (TxDrop(t) /\ pc[t] = "applied") => BlockGet(t)' = BlockGet(t)
            /\ CommitVisible(t) => ViewNow' = gh.w]_vars

\* C20 witness: in a Cell Block that had itself changed the value, a
\* Transaction that changed it again has just been dropped without apply().
C20_Witness ==
    /\ variant = "cell"
    /\ gh.ev = "tx_dropped_dirty"
    /\ gh.w # gh.ref
    /\ \E t \in Threads : pc[t] = "block" /\ BlockGet(t) = gh.w

\* ====================================================================
\* serde.rs : serialization of the published state, deserialization
\* ====================================================================
\* writes explored in one behaviour with serialization
MaxWritesSerde == 2

\* faulty variant: the rollback log is read through the live write handle
Ser1_reads_writer ==
    /\ variant \in {"storage", "cell"}
    /\ view.phase = "none"
    /\ view' = [phase |-> "ser",
                rollback |-> IF \E t \in Threads : pc[t] \in {"block", "tx", "applied"}
                             THEN block[slot_writer].revert ELSE revert,
                quiet |-> TRUE, idle |-> AllIdle, live |-> BlockLive, s0 |-> gh.s0]
    /\ out' = NoOut
    /\ UNCHANGED <<variant, writers, blocks, revert, latest_block, slot_writer,
                   blocks_writer, pc, block, tx, gh>>

\* Serialize::serialize, first statement: let rollback = self.rollback.read()
Ser1 ==
    /\ variant \in {"storage", "cell"}
    /\ view.phase = "none"
    /\ view' = [phase |-> "ser", rollback |-> revert,
                quiet |-> TRUE, idle |-> AllIdle, live |-> BlockLive, s0 |-> gh.s0]
    /\ out' = NoOut
    /\ UNCHANGED <<variant, writers, blocks, revert, latest_block, slot_writer,
                   blocks_writer, pc, block, tx, gh>>

\* second statement, let blocks = self.blocks.read(), and the rest of the
\* body: the struct is written in the shape the data format gives it.
\* quiet: no Block was opened and nothing was published between the two
\* reads; idle / live: no Block / a Block not yet in commit() at the first
\* read; s0: what serialize() wrote right before that Block was opened.
Ser2(shape) ==
    /\ view.phase = "ser"
    /\ out' = [op |-> "serialize",
               doc |-> Document(shape, IF variant = "cell"
                                       THEN C_serialize(view.rollback, blocks)
                                       ELSE S_serialize(view.rollback, blocks)),
               quiet |-> view.quiet, idle |-> view.idle, live |-> view.live,
               s0 |-> view.s0]
    /\ view' = NoView
    /\ UNCHANGED <<variant, writers, blocks, revert, latest_block, slot_writer,
                   blocks_writer, pc, block, tx, gh>>

\* Deserialize::deserialize of the document just written or received: on Ok the threads go
\* on with the Storage / Cell it returns, on Err nothing is constructed
DeserializeStore ==
    /\ out.op \in {"serialize", "document"}
    /\ AllIdle
    /\ LET r == Deserialize(variant, out.doc) IN
         IF r.ok
         THEN /\ revert' = r.v.rollback
              /\ blocks' = r.v.blocks
              /\ gh' = [gh EXCEPT !.de = IF gh.de = "mixed" \/ ~(out.quiet /\ out.idle)
                                         THEN "mixed" ELSE "loaded",
                                  !.ev = "deserialized"]
              /\ out' = [op |-> "deserialize", ok |-> TRUE, of |-> out.doc]
         ELSE /\ UNCHANGED <<revert, blocks, gh>>
              /\ out' = [op |-> "deserialize", ok |-> FALSE, of |-> out.doc]
    /\ UNCHANGED <<variant, writers, latest_block, slot_writer, blocks_writer,
                   pc, block, tx, view>>

InitSerde == InitFor({"storage", "cell"}, {1}, MaxWritesSerde, FALSE)
NextSerde ==
    \/ \E t \in Threads : BlockNext(t) \/ TxNext(t)
    \/ Ser1
    \/ \E shape \in {"map", "seq"} : Ser2(shape)
    \/ DeserializeStore
\* one writer thread, and a thread that serializes the store and loads it again
SpecSerde == InitSerde /\ [][NextSerde]_vars

C23_SerializeCommittedOnly ==
    (out.op = "serialize" /\ out.live /\ out.quiet) =>
        out.doc = Document(out.doc.shape, out.s0)

\* C23 witness: a store was serialized while a Block is live that has
\* changed values and whose rollback log differs from the published one.
C23_Witness ==
    /\ out.op = "serialize" /\ out.live /\ out.quiet
    /\ gh.wrote
    /\ revert # (IF variant = "cell" THEN None ELSE EmptyLog)
    /\ \E t \in Threads :
          /\ pc[t] \in {"block", "tx", "applied"}
          /\ BlockGet(t) # ViewNow
          /\ block[t].revert # revert

\* ---------------------------------------------------------------- documents
\* fields (or elements) of a document handed to deserialize()
MaxFields == 3

\* the documents tried: up to MaxFields fields named rollback, blocks or
\* something else (or as many unnamed elements), whose values are a number,
\* null, or a map with at most one entry
Documents ==
    LET Values == {Num(1), Null, JMap(<<>>),
                   JMap(<<<<1, Num(1)>>>>),
                   JMap(<<<<1, Null>>>>)}
        Names == {"rollback", "blocks", "extra"}
    IN UNION {[shape : {"map"}, items : [1..n -> Names \X Values]] \cup
              [shape : {"seq"}, items : [1..n -> {""} \X Values]] : n \in 0..MaxFields}

\* a store as constructed by new(), and a document to deserialize
InitDe ==
    /\ variant \in {"storage", "cell"}
    /\ writers = {}
    /\ blocks \in IF variant = "cell" THEN Vals ELSE {EmptyMap}
    /\ revert = IF variant = "cell" THEN None ELSE EmptyLog
    /\ latest_block = BlockInner_new
    /\ slot_writer = 0
    /\ blocks_writer = 0
    /\ pc = [t \in Threads |-> "idle"]
    /\ block = [t \in Threads |-> IdleBlock]
    /\ tx = [t \in Threads |-> IdleTx]
    /\ view = NoView
    /\ out \in [op : {"document"}, doc : Documents,
                 quiet : {FALSE}, idle : {FALSE}, live : {FALSE}, s0 : {<<>>}]
    /\ gh = [ref |-> blocks, prev |-> blocks, w |-> blocks, t |-> blocks,
             rb |-> FALSE, wrote |-> FALSE, last |-> "none", v1 |-> blocks,
             left |-> 0, ev |-> "", bg |-> blocks,
             hist |-> {blocks}, track |-> FALSE, v0 |-> blocks,
             de |-> "", s0 |-> <<>>, lw |-> FALSE,
             kw |-> {}, kt |-> {}]
\* deserialize() applied to every document
SpecDe == InitDe /\ [][DeserializeStore]_vars

\* C22: deserializing a Storage or Cell from a keyed object that repeats the
\* field rollback or blocks, has a field with another name, or lacks one of
\* the two, and from a sequence with fewer than two elements, returns an
\* error and constructs nothing.
C22_DeserializeErrors ==
    [][(/\ DeserializeStore
        /\ LET doc == out.doc
               n == Len(doc.items)
               Count(name) == Cardinality({i \in 1..n : doc.items[i][1] = name})
           IN IF doc.shape = "seq" THEN n < 2
              ELSE \/ Count("rollback") # 1
                   \/ Count("blocks") # 1
                   \/ n # 2)
       => (~out'.ok /\ UNCHANGED <<revert, blocks>>)]_vars

\* C22 witness: a keyed object with a valid rollback field and the field
\* blocks twice was refused.
C22_Witness ==
    /\ out.op = "deserialize"
    /\ ~out.ok
    /\ out.of.shape = "map"
    /\ Len(out.of.items) = 3
    /\ out.of.items[1][1] = "rollback"
    /\ out.of.items[2][1] = "blocks"
    /\ out.of.items[3][1] = "blocks"
    /\ Deserialize(variant, [out.of EXCEPT !.items = SubSeq(@, 1, 2)]).ok

\* C24 as stated: in storage.rs, whenever no Block is live, the published
\* rollback log applied to the published map is the committed map as it was
\* right before the most recently committed block was committed.
C24_LogRestoresMapBeforeCommit ==
    (variant = "storage" /\ AllIdle) => ApplyLog(blocks, revert) = gh.v1

\* C24 as amended: in storage.rs, whenever no Block is live, the published
\* rollback log applied to the published map is the map the most recently
\* committed block made its writes on: for a normal block the committed map
\* right before its commit, for a revert block that map with the block before
\* it undone.
C24_LogRestoresBlockStart ==
    (variant = "storage" /\ AllIdle) => ApplyLog(blocks, revert) = gh.prev

\* C24 witness: no Block is live after a revert block with writes was
\* committed; the log is not empty and leads to a map that is neither the
\* published one nor the one committed before the revert block.
C24_Witness ==
    /\ variant = "storage"
    /\ AllIdle
    /\ gh.last = "revert_dirty"
    /\ revert # EmptyLog
    /\ ApplyLog(blocks, revert) # blocks
    /\ ApplyLog(blocks, revert) # gh.v1

\* C25: in a Block of storage.rs, until commit() is called, the
\* rollback-log entry of a key is the value the key had when the Block was
\* opened (None when it was absent), whatever insert, remove, get_mut and
\* applied Transactions wrote to the key afterwards, and a key whose value
\* differs from the one at opening has an entry. (At opening the Block holds
\* the committed map, with the block before undone under block_and_revert.)
C25_FirstPriorValue ==
    LET BlockStart == IF gh.rb THEN gh.prev ELSE gh.ref IN
    \A t \in Threads :
        (variant = "storage" /\ pc[t] \in {"block", "tx", "applied"}) =>
            \A k \in Keys :
                /\ block[t].revert[k] \in {NoEntry, BlockStart[k]}
                /\ (pc[t] # "tx" /\ BlockGet(t)[k] # BlockStart[k]) =>
                       block[t].revert[k] # NoEntry

\* C25 witness: a Transaction that rewrote a key the Block had already
\* rewritten has just been applied; the key's entry is the value at opening,
\* not the intermediate one.
C25_Witness ==
    LET BlockStart == IF gh.rb THEN gh.prev ELSE gh.ref IN
    /\ variant = "storage"
    /\ gh.ev = "tx_applied"
    /\ \E t \in Threads, k \in Keys :
          /\ pc[t] = "applied"
          /\ gh.bg[k] # BlockStart[k]
          /\ BlockGet(t)[k] # gh.bg[k]
          /\ block[t].revert[k] = BlockStart[k]

\* C26: after blocks B1 and B2 and a revert block R with writes W were
\* committed, the commit of a revert block without writes brings view() to
\* the state after B1 alone (W and B2 undone, B1 kept), and every further
\* revert block without writes leaves it there (storage.rs and lib.rs).
C26_OnlyLastBlockReversible ==
    [][\A t \in Threads :
         (/\ CommitVisible(t)
          /\ variant \in {"storage", "lib"}
          /\ gh.rb /\ ~gh.wrote)
         => /\ gh.last = "revert_dirty" => ViewNow' = gh.prev
            /\ gh.last = "revert_clean_d" => (ViewNow' = ViewNow /\ ViewNow = gh.prev)]_vars

\* C26 witness: three writes were made, the last ones by a revert block that
\* was committed; the revert block without writes committed after it changed
\* view() to a non-empty state.
C26_Witness ==
    /\ variant \in {"storage", "lib"}
    /\ AllIdle
    /\ gh.last = "revert_clean_d"
    /\ gh.left = 0
    /\ ViewNow = gh.prev
    /\ ViewNow # gh.v1
    /\ ViewNow # EmptyMap

\* C27: in lib.rs no key is at once in the overrides map and in the
\* tombstone set of a Block's staging buffer, nor of a Transaction's private
\* buffer, after any sequence of inserts, removes and applies.
C27_StagingDisjoint ==
    variant = "lib" =>
        \A t \in Threads, k \in Keys :
            /\ ~(block[t].latest_block.new_or_updated_keys[k] # None
                  /\ k \in block[t].latest_block.removed_keys)
            /\ ~(tx[t].latest_block.new_or_updated_keys[k] # None
                  /\ k \in tx[t].latest_block.removed_keys)

\* C28: in lib.rs, whenever no commit is in progress, the published staging
\* slot holds the net writes of the most recently committed block (a key is
\* an override or a tombstone, never both; overrides carry the final values)
\* and the published base map is the state that block started from, so that
\* the slot overlaid on the base map is the latest committed state.
C28_SlotIsLastBlockDiff ==
    (variant = "lib" /\ \A t \in Threads : pc[t] # "commit") =>
        /\ blocks = gh.prev
        /\ ViewOf(latest_block, blocks) = gh.ref
        /\ \A k \in Keys :
              /\ latest_block.new_or_updated_keys[k] # None =>
                    /\ gh.ref[k] = latest_block.new_or_updated_keys[k]
                    /\ k \notin latest_block.removed_keys
              /\ k \in latest_block.removed_keys => gh.ref[k] = None

\* C28, the part that holds: base map = the state the last committed block
\* started from, slot over base map = the latest committed state
C28_BaseAndOverlay ==
    (variant = "lib" /\ \A t \in Threads : pc[t] # "commit") =>
        /\ blocks = gh.prev
        /\ ViewOf(latest_block, blocks) = gh.ref

\* C29 as stated: in lib.rs, whenever no Block is live, the published staging
\* buffer (overrides and tombstones) is empty.
C29_PublishedBufferEmpty ==
    (variant = "lib" /\ AllIdle) => latest_block = BlockInner_new

\* C29 amended: in lib.rs, whenever no Block is live and the most recently
\* committed block, if any, made no writes, the published staging buffer
\* (overrides and tombstones) is empty.
C29_PublishedBufferEmptyUnlessWritten ==
    (variant = "lib" /\ AllIdle /\ ~gh.lw) => latest_block = BlockInner_new

\* a block with writes was committed, then a block without writes: the
\* published buffer, which held the first block's writes, is empty again
C29_Witness ==
    /\ variant = "lib"
    /\ AllIdle
    /\ ~gh.lw
    /\ gh.last = "normal"
    /\ blocks # EmptyMap
    /\ latest_block = BlockInner_new

\* C30: in lib.rs, right after block(false) has opened a Block, the Block's
\* staging buffer is empty, its base map is the published base map with the
\* published buffer's tombstoned keys removed and its overrides inserted (an
\* override wins over a tombstone of the same key), and Block::get gives for
\* every key what view().get gave right before the open.
C30_LazyMergePreservesState ==
    [][\A t \in Threads :
         (variant = "lib" /\ pc[t] = "open" /\ pc'[t] = "block") =>
            /\ block'[t].latest_block = BlockInner_new
            /\ \A k \in Keys :
                  /\ block'[t].blocks[k] =
                        IF latest_block.new_or_updated_keys[k] # None
                        THEN latest_block.new_or_updated_keys[k]
                        ELSE IF k \in latest_block.removed_keys THEN None
                        ELSE blocks[k]
                  /\ L_get(block'[t], k) = gh.v0[k]]_vars

\* a Block just opened with block(false) on a published buffer that has a key
\* both as a tombstone and as an override, and another key in the base map
C30_Witness ==
    /\ variant = "lib"
    /\ pc[1] = "block"
    /\ ~gh.rb /\ ~gh.wrote
    /\ block[1].latest_block = BlockInner_new
    /\ \E k \in Keys :
          /\ k \in latest_block.removed_keys
          /\ latest_block.new_or_updated_keys[k] # None
          /\ block[1].blocks[k] = latest_block.new_or_updated_keys[k]
          /\ \E j \in Keys \ {k} : blocks[j] # None

\* C31: in storage.rs and lib.rs, a write of a Block or of a Transaction is
\* read back by get on the same handle (insert(k, v): v, remove(k): absent,
\* so the latest of several writes wins) and get of every other key is what
\* it was before the write.
C31_ReadYourWrites ==
    [][\A t \in Threads, k \in Keys :
         variant \in {"storage", "lib"} =>
            /\ \A v \in Vals :
                  /\ Insert(t, k, v) => BlockGet(t)' = MapInsert(BlockGet(t), k, v)
                  /\ TxInsert(t, k, v) => TxGet(t)' = MapInsert(TxGet(t), k, v)
            /\ Remove(t, k) => BlockGet(t)' = MapRemove(BlockGet(t), k)
            /\ TxRemove(t, k) => TxGet(t)' = MapRemove(TxGet(t), k)]_vars

\* a lib.rs Transaction has removed a key its Block had overwritten, while
\* another key still reads its committed value
C31_Witness ==
    /\ variant = "lib"
    /\ pc[1] = "tx"
    /\ \E k \in Keys :
          /\ TxGet(1)[k] = None
          /\ BlockGet(1)[k] # None
          /\ BlockGet(1)[k] # ViewNow[k]
          /\ \E j \in Keys \ {k} : TxGet(1)[j] # None /\ TxGet(1)[j] = ViewNow[j]

\* C32: in lib.rs, iter() on a Transaction, a Block or a View yields exactly
\* the pairs <<k, v>> for which get(k) on the same handle returns v, nothing
\* for a key whose get is absent, each key once and in ascending order.
C32_IterAgreesWithGet ==
    out.op = "iter" =>
        LET Agrees(get) ==
                /\ \A k \in Keys, v \in Vals : Emits(out.items, k, v) <=> get[k] = v
                /\ \A i \in 1..Len(out.items) : get[out.items[i][1]] = out.items[i][2]
                /\ Len(out.items) = Cardinality({k \in Keys : get[k] # None})
                /\ Ascending(out.items)
        IN /\ out.on = "view" => Agrees(ViewGet(view))
           /\ out.on = "block" => \A t \in Threads : pc[t] = "block" => Agrees(BlockGet(t))
           /\ out.on = "tx" => \A t \in Threads : pc[t] = "tx" => Agrees(TxGet(t))

\* iter() on a Transaction where all three layers decide: the base map holds
\* two keys, the Block has overwritten one with another value and the
\* Transaction has removed the other
C32_Witness ==
    /\ out.op = "iter"
    /\ out.on = "tx"
    /\ \E t \in Threads :
          /\ pc[t] = "tx"
          /\ \E k \in Keys, j \in Keys :
                /\ j # k
                /\ block[t].blocks[k] # None
                /\ block[t].latest_block.new_or_updated_keys[k] # None
                /\ block[t].latest_block.new_or_updated_keys[k] # block[t].blocks[k]
                /\ block[t].blocks[j] # None
                /\ j \in tx[t].latest_block.removed_keys
                /\ out.items = <<<<k, block[t].latest_block.new_or_updated_keys[k]>>>>

\* C33: in a Cell Block the first get_mut() of the Block, or of a Transaction
\* that is then applied, puts the value the Block was opened on into the
\* Block's rollback slot; later get_mut() calls, Transactions' get_mut() and
\* dropped Transactions leave the slot as it is; commit() publishes the slot,
\* which is that value, or empty when the Block made no get_mut() at all.
C33_CellRollbackSlot ==
    [][\A t \in Threads :
         variant = "cell" =>
            LET Start == IF gh.rb THEN gh.prev ELSE gh.ref
                Kept == block[t].revert
            IN /\ \A v \in Vals :
                    /\ CellGetMut(t, v) =>
                          block'[t].revert = IF Kept = None THEN Start ELSE Kept
                    /\ CellTxGetMut(t, v) => block'[t].revert = Kept
               /\ TxApply(t) =>
                     block'[t].revert = IF Kept # None THEN Kept
                                        ELSE IF tx[t].revert # None THEN Start
                                        ELSE None
               /\ TxDrop(t) => block'[t].revert = Kept
               /\ (pc[t] = "commit" /\ pc'[t] = "idle") =>
                     /\ revert' = Kept
                     /\ revert' \in {None, gh.prev}
                     /\ ~gh.wrote => revert' = None]_vars

\* a Cell Block has stored through get_mut() at least twice and now holds
\* the value it was opened on again, which is also what its rollback slot holds
C33_Witness ==
    /\ variant = "cell"
    /\ pc[1] = "block"
    /\ gh.wrote
    /\ gh.left <= MaxWrites - 2
    /\ block[1].revert # None
    /\ block[1].revert = block[1].blocks
    /\ block[1].revert = ViewNow

\* C34: in storage.rs, get_mut(k) of a Block resp. of a Transaction on a
\* present key records k's value in the rollback log resp. the private
\* inverse diff unless an entry for k is there, whether or not the value is
\* then changed, and touches no other entry; on an absent key it changes
\* nothing. The change is undone by the Transaction's drop and by the next
\* revert block.
C34_GetMutRecordsPrior ==
    [][\A t \in Threads :
         variant = "storage" =>
            /\ \A k \in Keys, v \in Vals :
                  LET was == block[t].blocks[k]
                      Recorded(log, log2) ==
                          /\ log2[k] = IF log[k] = NoEntry THEN was ELSE log[k]
                          /\ \A j \in Keys \ {k} : log2[j] = log[j]
                  IN /\ (GetMut(t, k, v) /\ was # None) =>
                           /\ Recorded(block[t].revert, block'[t].revert)
                           /\ block'[t].blocks = MapInsert(block[t].blocks, k, v)
                     /\ (GetMut(t, k, v) /\ was = None) => block'[t] = block[t]
                     /\ (TxGetMut(t, k, v) /\ was # None) =>
                           /\ Recorded(tx[t].revert, tx'[t].revert)
                           /\ block'[t].revert = block[t].revert
                           /\ block'[t].blocks = MapInsert(block[t].blocks, k, v)
                     /\ (TxGetMut(t, k, v) /\ was = None) =>
                           block'[t] = block[t] /\ tx'[t] = tx[t]
            /\ (TxDrop(t) /\ pc[t] = "tx") => block'[t].blocks = gh.bg
            /\ (pc[t] = "open_revert" /\ pc'[t] = "block") => block'[t].blocks = gh.prev]_vars

\* a Transaction's get_mut on a present key, not followed by a change of the
\* value, has recorded the value in the private inverse diff
C34_Witness ==
    /\ variant = "storage"
    /\ gh.ev = "get_mut"
    /\ pc[1] = "tx"
    /\ \E k \in Keys :
          /\ block[1].blocks[k] # None
          /\ tx[1].revert[k] = block[1].blocks[k]
          /\ block[1].revert[k] = NoEntry
          /\ gh.bg[k] = block[1].blocks[k]

\* C35: a View created while a revert block is open and not yet committed
\* shows the committed state before the revert; and a View during whose
\* creation no commit but that of a revert block became visible, completed
\* before a later block is visible, shows the state before that commit or
\* the state after it: the undo together with the revert block's writes,
\* never the one without the other.
C35_RevertVisibleAtCommit ==
    [][(view.phase # "taken" /\ view'.phase = "taken") =>
          LET shows == ViewOf(view'.latest_block, view'.blocks)
              began == IF variant = "lib" THEN view.at ELSE gh.ref
              commits == IF variant = "lib" THEN view.n ELSE 0
          IN /\ ((\E t \in Threads : pc[t] \in {"block", "tx", "applied"})
                    /\ gh.rb /\ commits = 0)
                  => shows = began
             /\ (gh.last \in {"revert_dirty", "revert_clean_n", "revert_clean_d",
                              "revert_clean_e"}
                    /\ commits <= 1)
                  => shows \in {began, gh.ref}]_vars

\* C36: in storage.rs, whatever the writer thread does between and around
\* the two reads of serialize(), applying the serialized rollback log to the
\* serialized map gives a committed state: the one the last block of the
\* serialized map started from.
C36_SerializeAtCommitBoundary ==
    (variant = "storage" /\ out.op = "serialize") =>
        LET r == Deserialize(variant, out.doc) IN
            /\ r.ok
            /\ ApplyLog(r.v.blocks, r.v.rollback) = gh.prev

C38_DroppedTxLeavesLog ==
    [][\A t \in Threads :
         variant = "storage" =>
            LET Logged(log) == {k \in Keys : log[k] # NoEntry} IN
              /\ \A k \in Keys, v \in Vals :
                    (TxInsert(t, k, v) \/ TxRemove(t, k) \/ TxGetMut(t, k, v))
                       => block'[t].revert = block[t].revert
              /\ TxDrop(t) => block'[t].revert = block[t].revert
              /\ pc'[t] \in {"block", "tx", "applied", "commit"}
                    => Logged(block'[t].revert) = gh'.kw
              /\ (pc[t] = "commit" /\ pc'[t] = "idle") => Logged(revert') = gh.kw]_vars

\* a Block that wrote one key itself has dropped a Transaction that wrote
\* another key: the Block's log has the one entry
C38_Witness ==
    /\ variant = "storage"
    /\ pc[1] = "block"
    /\ gh.ev = "tx_dropped_dirty"
    /\ gh.kw # {}
    /\ gh.kt \ gh.kw # {}
    /\ \A k \in gh.kt \ gh.kw : block[1].revert[k] = NoEntry

====
